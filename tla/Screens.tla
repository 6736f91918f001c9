------------------------------ MODULE Screens ------------------------------
(***************************************************************************)
(* What a page shows of the market: the hooks useUserOrders, useOrderBook  *)
(* and useTradeHistory, each fed by requests whose answers may be slow,    *)
(* overtake one another or fail, and by the events of the WebSocket feed   *)
(* (Feed), which come in order on a way of their own and are lost with a   *)
(* connection.  The exchange behind them is the Market, with the stores in *)
(* memory: an HTTP request is not served in the middle of another call.    *)
(***************************************************************************)
EXTENDS Market, Arrays, SequencesExt

CONSTANTS
    Me,             \* the user of the page
    Limit,          \* trades kept by useTradeHistory
    MaxRequests,    \* bound: requests of a page
    MaxDrops        \* bound: connections lost

\* Ids rise with the orders, so that they serve as the turns in which these
\* come to rest.  A page keeps at least one trade.
ASSUME ScreensAssumption ==
    /\ Me \in Users
    /\ OrderIds \subseteq Nat \ {0}
    /\ Quantities \subseteq Nat \ {0}
    /\ Limit \in Nat \ {0}
    /\ {MaxRequests, MaxDrops} \subseteq Nat

VARIABLES
    tape,           \* the trade store: the timestamps of the trades, in order
    page,           \* the page, and whether its hook is mounted
    wire,           \* events on their way to the page
    drops,
    request,        \* the page's requests, oldest first
    error,          \* the hook's error is set
    shownOrders,    \* useUserOrders: orders
    shownLevels,    \* useOrderBook: orderBook, as quantity per side
    shownTrades,    \* useTradeHistory: trades, as positions on the tape
    liveArrived,    \* useTradeHistory: a trade came by the feed
    raced,          \* history: an event came while the orders were being loaded,
                    \* an answer overtook another, a load failed or events were lost
    unannounced     \* history: the book has changed since the last change the
                    \* page is told of

pageVars   == <<page, request, error, shownOrders, shownLevels, shownTrades, liveArrived>>
screenVars == <<marketVars, tape, wire, drops, pageVars, raced, unannounced>>

Pages    == {"orders", "book", "trades"}
NoLevels == [buy |-> 0, sell |-> 0]

ScreensTypeOK ==
    /\ page \in [name : Pages, mounted : BOOLEAN]
    /\ \A r \in DOMAIN request : request[r].at \in {"asked", "answered", "failed", "done"}
    /\ error \in BOOLEAN /\ liveArrived \in BOOLEAN
    /\ shownOrders \subseteq OrderIds
    /\ \A i \in DOMAIN shownTrades : shownTrades[i] \in DOMAIN tape
    /\ Len(shownTrades) <= Limit
    /\ ~page.mounted => request = <<>>

ScreensInit ==
    /\ MarketInit
    /\ tape = <<>> /\ wire = <<>> /\ drops = 0
    /\ page \in [name : Pages, mounted : {FALSE}]
    /\ request = <<>> /\ error = FALSE
    /\ shownOrders = {} /\ shownLevels = NoLevels /\ shownTrades = <<>>
    /\ liveArrived = FALSE /\ raced = FALSE /\ unannounced = FALSE

-----------------------------------------------------------------------------
(* The exchange, and what it sends to the page                             *)

\* A call is under way until it rests, is refused or says that it is filled.
Unsaid(o) == terms[o] # NoTerms /\ terms[o].placedAt = 0
                /\ bought[o] = terms[o].size /\ told[o] = {}
Idle == \A o \in OrderIds : taking[o] = 0 /\ ~Unsaid(o)

Sends(event) == wire' = Append(wire, event)

\* The orders of a market without prices: a page sees sides and quantities.
Submit(o, user, side, size) ==
    /\ Idle
    /\ \A p \in OrderIds : p < o => terms[p] # NoTerms
    /\ \E price \in Prices, t \in Times : Ask(o, user, side, price, size, t)
    /\ UNCHANGED <<tape, wire, drops, pageVars, raced, unannounced>>

\* TRADE_EXECUTED goes to everyone.
Trade(o, later) ==
    /\ taking[o] > 0
    /\ \E m \in Counterparties(o) : Deal(o, m)
    /\ tape' = Append(tape, IF tape = <<>> THEN 0 ELSE Last(tape) + later)
    /\ Sends([type |-> "TRADE_EXECUTED", order |-> o, trade |-> Len(tape) + 1])
    /\ unannounced' = TRUE
    /\ UNCHANGED <<drops, pageVars, raced>>

\* So does ORDER_PLACED.
Rests(o) ==
    /\ taking[o] > 0
    /\ ComesToRest(o, o)
    /\ Sends([type |-> "ORDER_PLACED", order |-> o])
    /\ unannounced' = FALSE
    /\ UNCHANGED <<tape, drops, pageVars, raced>>

\* ORDER_FILLED and ORDER_CANCELLED go to the order's user.
SendsToOwner(o, event) ==
    IF terms[o].user = Me THEN Sends(event) ELSE UNCHANGED wire

Fills(o) ==
    /\ Unsaid(o)
    /\ FilledOnArrival(o)
    /\ SendsToOwner(o, [type |-> "ORDER_FILLED", order |-> o])
    /\ UNCHANGED <<tape, drops, pageVars, raced, unannounced>>

Cancels(o) ==
    /\ Idle
    /\ Withdraw(o)
    /\ SendsToOwner(o, [type |-> "ORDER_CANCELLED", order |-> o])
    /\ unannounced' = (terms[o].user # Me)
    /\ UNCHANGED <<tape, drops, pageVars, raced>>

\* The connection breaks with what was on its way, and is made anew at once:
\* nothing asks again for what was missed.
Drop ==
    /\ page.mounted
    /\ drops < MaxDrops
    /\ drops' = drops + 1
    /\ wire' = <<>>
    /\ raced' = TRUE
    /\ UNCHANGED <<marketVars, tape, pageVars, unannounced>>

-----------------------------------------------------------------------------
(* Requests                                                                *)

Outstanding == {r \in DOMAIN request : request[r].at # "done"}

Asks == /\ Len(request) < MaxRequests
        /\ request' = Append(request, [at |-> "asked"])

\* getUserOrders
OpenOrders == {o \in Book : terms[o].user = Me}

\* aggregateLevels, the prices left out
Offered(side) == SumFunctionOnSet(rest, {o \in Book : terms[o].side = side})
Levels == [side \in Sides |-> Offered(side)]

\* Slip: the oldest trades come first.
RecentOldestFirst == [i \in 1..LesserOf(Limit, Len(tape)) |-> i]

\* The comparator of getRecentTrades: the newest first, and trades of one
\* millisecond as they happened, because the sort is stable.
NewestFirst ==
    {p \in (DOMAIN tape) \X (DOMAIN tape) :
        tape[p[1]] > tape[p[2]] \/ (tape[p[1]] = tape[p[2]] /\ p[1] <= p[2])}

\* The first Limit of the trades so sorted.
Recent == [k \in 1..LesserOf(Limit, Len(tape)) |-> Position(k, DOMAIN tape, NewestFirst)]

\* The server answers with what is there now.
Answer(r) ==
    /\ Idle
    /\ request[r].at = "asked"
    /\ request' = [request EXCEPT ![r] =
         [at |-> "answered",
          data |-> CASE page.name = "orders" -> OpenOrders
                     [] page.name = "book"   -> Levels
                     [] page.name = "trades" -> Recent]]
    /\ unannounced' = IF page.name = "book" THEN FALSE ELSE unannounced
    /\ UNCHANGED <<marketVars, tape, wire, drops, page, error, shownOrders, shownLevels,
                   shownTrades, liveArrived, raced>>

\* Not ok: the server refused or could not be reached.
Fail(r) ==
    /\ request[r].at = "asked"
    /\ request' = [request EXCEPT ![r] = [at |-> "failed"]]
    /\ UNCHANGED <<marketVars, tape, wire, drops, page, error, shownOrders, shownLevels,
                   shownTrades, liveArrived, raced, unannounced>>

Done(r) == request' = [request EXCEPT ![r] = [at |-> "done"]]

\* Another answer than the latest request's, or one that is not the last.
Overtakes(r) == Outstanding # {r} \/ r # Len(request)

-----------------------------------------------------------------------------
(* The hooks                                                               *)

\* The effects run: load, and subscribe to the feed.
Mount ==
    /\ ~page.mounted
    /\ page' = [page EXCEPT !.mounted = TRUE]
    /\ Asks
    /\ UNCHANGED <<marketVars, tape, wire, drops, error, shownOrders, shownLevels,
                   shownTrades, liveArrived, raced, unannounced>>

\* Slip: the answer replaces what the feed has brought.
TradesAfterLoadReplaced(data) == data

\* Live trades that have arrived are kept.
TradesAfterLoad(data) ==
    IF liveArrived /\ shownTrades # <<>> THEN shownTrades ELSE data

\* The answer of a load reaches the hook, which sets its state.
Load(r) ==
    /\ request[r].at = "answered"
    /\ Done(r)
    /\ \/ /\ page.name = "orders"
          /\ shownOrders' = request[r].data
          /\ UNCHANGED <<shownLevels, shownTrades>>
       \/ /\ page.name = "book"
          /\ shownLevels' = request[r].data
          /\ UNCHANGED <<shownOrders, shownTrades>>
       \/ /\ page.name = "trades"
          /\ shownTrades' = TradesAfterLoad(request[r].data)
          /\ UNCHANGED <<shownOrders, shownLevels>>
    /\ raced' = (raced \/ (page.name = "book" /\ Overtakes(r)))
    /\ UNCHANGED <<marketVars, tape, wire, drops, page, error, liveArrived, unannounced>>

LoadFails(r) ==
    /\ request[r].at = "failed"
    /\ Done(r)
    /\ error' = TRUE
    /\ raced' = TRUE
    /\ UNCHANGED <<marketVars, tape, wire, drops, page, shownOrders, shownLevels,
                   shownTrades, liveArrived, unannounced>>

\* "Try again" of the error state, which shows only over an empty list.
Refetch ==
    /\ page = [name |-> "orders", mounted |-> TRUE]
    /\ error /\ shownOrders = {} /\ Outstanding = {}
    /\ Asks
    /\ error' = FALSE /\ raced' = FALSE
    /\ UNCHANGED <<marketVars, tape, wire, drops, page, shownOrders, shownLevels,
                   shownTrades, liveArrived, unannounced>>

\* The cancel button.  Its request names no user and the server refuses it
\* (Sessions), so that the order stays where it is.
CancelRefused(o) ==
    /\ page = [name |-> "orders", mounted |-> TRUE]
    /\ o \in shownOrders
    /\ error' = TRUE
    /\ UNCHANGED <<marketVars, tape, wire, drops, page, request, shownOrders, shownLevels,
                   shownTrades, liveArrived, raced, unannounced>>

\* Slip: cancelled orders stay on the list.
RemovesFilledOnly(event) == event.type = "ORDER_FILLED"

Removes(event) == event.type \in {"ORDER_CANCELLED", "ORDER_FILLED"}

\* upsertOrder and removeOrder: events of the page's own orders.
OrdersHear(event) ==
    shownOrders' =
        IF terms[event.order].user # Me          THEN shownOrders
        ELSE IF event.type = "ORDER_PLACED"      THEN shownOrders \cup {event.order}
        ELSE IF Removes(event)                   THEN shownOrders \ {event.order}
        ELSE shownOrders

\* Slip: a placed order does not refresh the book.
RefreshesOnCancel(event) == event.type = "ORDER_CANCELLED"

RefreshesOn(event) == event.type \in {"ORDER_PLACED", "ORDER_CANCELLED"}

\* handleUpdate refreshes; requests of a page are not cancelled by later ones.
BookHears(event) ==
    \/ RefreshesOn(event) /\ Asks /\ error' = FALSE
    \/ ~RefreshesOn(event) /\ UNCHANGED <<request, error>>

\* Slip: nothing is dropped.
WithinLimitNot(trades) == trades

WithinLimit(trades) == SubSeq(trades, 1, LesserOf(Limit, Len(trades)))

\* handleTrade prepends, and drops what exceeds the limit.
TradesHear(event) ==
    \/ /\ event.type = "TRADE_EXECUTED"
       /\ liveArrived' = TRUE
       /\ shownTrades' = WithinLimit(<<event.trade>> \o shownTrades)
    \/ event.type # "TRADE_EXECUTED" /\ UNCHANGED <<liveArrived, shownTrades>>

\* An event reaches the page; without a mounted hook nobody listens.
Hear ==
    LET event == Head(wire)
    IN  /\ wire # <<>>
        /\ wire' = Tail(wire)
        /\ raced' = (raced \/ (page = [name |-> "orders", mounted |-> TRUE] /\ Outstanding # {}))
        /\ \/ /\ ~page.mounted
              /\ UNCHANGED <<request, error, shownOrders, shownTrades, liveArrived>>
           \/ /\ page = [name |-> "orders", mounted |-> TRUE]
              /\ OrdersHear(event)
              /\ UNCHANGED <<request, error, shownTrades, liveArrived>>
           \/ /\ page = [name |-> "book", mounted |-> TRUE]
              /\ BookHears(event)
              /\ UNCHANGED <<shownOrders, shownTrades, liveArrived>>
           \/ /\ page = [name |-> "trades", mounted |-> TRUE]
              /\ TradesHear(event)
              /\ UNCHANGED <<request, error, shownOrders>>
        /\ UNCHANGED <<marketVars, tape, drops, page, shownLevels, unannounced>>

-----------------------------------------------------------------------------

ScreensNext ==
    \/ \E o \in OrderIds :
        \/ \E u \in Users, s \in Sides, q \in Quantities : Submit(o, u, s, q)
        \/ \E later \in {0, 1} : Trade(o, later)
        \/ Rests(o) \/ Fills(o) \/ Cancels(o) \/ CancelRefused(o)
    \/ \E r \in DOMAIN request : Answer(r) \/ Fail(r) \/ Load(r) \/ LoadFails(r)
    \/ Mount \/ Refetch \/ Hear \/ Drop

ScreensSpec == ScreensInit /\ [][ScreensNext]_screenVars

-----------------------------------------------------------------------------

\* Nothing is under way: no call, no request, no event.
Settled == Idle /\ wire = <<>> /\ page.mounted /\ Outstanding = {}

\* Once settled, the orders page shows every open order of its user, and of
\* others only those a later order consumed, which nobody announces: unless an
\* event came while a request was under way, events were lost, or the load
\* failed (load, upsertOrder and removeOrder against what Engine announces).
OpenOrdersShown ==
    Settled /\ page.name = "orders" /\ ~raced =>
        /\ OpenOrders \subseteq shownOrders
        /\ \A o \in shownOrders \ OpenOrders : bought[o] = terms[o].size

\* Once settled, the order book on the page is the exchange's, unless the last
\* change was one the page is not told of (a trade that leaves nothing to rest,
\* another user's cancellation), or an answer overtook another or was lost.
BookShown ==
    Settled /\ page.name = "book" /\ ~raced /\ ~unannounced => shownLevels = Levels

\* Once settled, the trade on top is of the newest timestamp, whichever of the
\* feed and the answer came first.
NewestTradeOnTop ==
    Settled /\ page.name = "trades" /\ ~raced /\ tape # <<>> =>
        shownTrades # <<>> /\ tape[Head(shownTrades)] = Last(tape)

\* A live trade stays on the page until Limit newer ones have pushed it out:
\* the answer of the load does not wipe it (useTradeHistory.ts, "keep them so
\* they are not wiped by the resolved response").
LiveTradesStay ==
    [][liveArrived /\ shownTrades' # shownTrades =>
          /\ Len(shownTrades') \in {Len(shownTrades), Len(shownTrades) + 1}
          /\ Tail(shownTrades') = SubSeq(shownTrades, 1, Len(shownTrades') - 1)]_screenVars
=============================================================================
