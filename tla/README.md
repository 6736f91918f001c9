# C.E.X: formal models

C.E.X is a small centralised exchange: a TypeScript backend (Bun) with a
matching engine, an order book, a wallet, a trade store, accounts and one-time
passwords behind an HTTP API and a WebSocket, and a Next.js frontend. This
directory models it in TLA+, checks the models with TLC on small
instances and proves part of them with TLAPS for instances of any size.

`PROJECT.json` holds the machine-readable side of what follows: components,
runs, mutants, the map from definitions to source lines, findings, hazards and
theorems. All paths below are relative to `src/`; `Engine.ts` stands for
`backend/src/domain/engine/services/Engine.ts`, the stores are in
`backend/src/infra/store/`.

## 1. The system

### Components

| component | state | operations that change it |
| --- | --- | --- |
| matching engine (`Engine.ts`, class `StandardEngine`) | none that lasts; each call works on its own order object | `processOrder`, `cancelOrder`, `deposit` |
| in-memory order book (`orderbook-store.ts`) | `orders` (a Map), `bids` and `asks` (sorted arrays of the same objects) | `placeOrder`, `cancelOrder`, `updateOrder`, `atomicMatch` |
| in-memory wallet (`wallet-store.ts`) | available and locked amount per user and asset | `lockFunds`, `unlockFunds`, `settleTrade`, `deposit`, `createWallet` |
| trade store (`trade-store.ts`) | executed trades and price ticks | `recordTrade`, `recordTick` |
| Postgres stores (`db-*.store.ts`, `infra/db/`), used instead of the three above with `USE_DB=true` | tables `orders`, `balances`, `trades`, `ticks`, `users` | the same operations as SQL statements and transactions; `migrate`, `seedDatabase` at start |
| order and trade services (`http-layer/service/`) | a counter for order ids | `placeOrder`, `addOrder`, `cancelOrder`, `deposit`; queries |
| event bus and WebSocket server (`event-bus.ts`, `ws-broadcast.orderbook.ts`, `infra/ws/`) | listeners; the identity of each connection, the connections of each user | `notify`, `register`, `unregister`, `sendToUser`, `broadcast`, `handleUpgrade` |
| browser WebSocket service (`frontend/src/services/websocket.ts`, `useWebSocket.ts`) | the current socket, a reconnect timer, a flag, the reported connection state | `initWebSocket`, `scheduleReconnect`, `disconnect` |
| screens (`frontend/src/hooks/`) | the lists a page shows, the requests it has made | first load, refresh, live messages |
| accounts (`auth-service.ts`, user stores, `auth-middleware.ts`) | users by id and by email | `register`, `login`, `oauthLogin`, `verifyToken` |
| OAuth (`oauth-controller.ts`, providers) | states handed out | `initiate`, `callback` |
| pages and API client (`frontend/app/`, `UserContext.tsx`, `api.ts`, `schemas.ts`) | the token in localStorage, shared by all tabs; the user each page shows | sign in and out, submit an order, a deposit, a cancel |
| HTTP server (`server.ts`, controllers) | none | routing, authentication, validation |
| one-time passwords (`otp.ts`, `email-service.ts`, `otp-service.ts`) | one code and expiry per user | request, verify, cleanup |
| email providers, logging | none | I/O |

### How they interact

A page sends a request with the token it finds in localStorage and a body made
of what it shows. The server checks the token, the controller the body, and a
service builds a domain order and calls the engine, which calls the book, the
wallet and the trade store one awaited call after another. The engine tells the
event bus what happened, the broadcaster turns bus events into messages and the
registry sends them to the connections of a user or of everybody. The browser
service hands messages to the hooks, which change the lists on screen or ask for
them again. Nothing flows back from the bus to the engine, and requests and
messages reach a page by two ways that keep no order between them.

JavaScript runs one callback at a time, so a piece of code between two awaits is
atomic and the awaits are where calls meet. With the in-memory stores every await
resolves in the microtask queue: one HTTP request to the engine runs to its end
before the next, and calls overlap only when one turn of the event loop starts
several (`Promise.all`). With Postgres every statement is a round trip, and the
requests of different users interleave between any two of them. Hashing a
password and asking a provider are awaits that take time with either store.

### What is hard, and what must hold

| component | hard behaviour | what makes it correct |
| --- | --- | --- |
| engine with in-memory stores | the head of the book read before an await and used after it; a cancel between a look-up and a removal; the same lock recorded in the wallet and in the order | it is one atomic market; money is conserved; locks agree with orders; no unit sold twice; no settlement fails half-way; calls end |
| order book | one order in three structures edited by four methods; the head changing in the middle of a match | the three agree, and so does the snapshot clients get; matches follow price, then time |
| engine with Postgres stores | statements of concurrent calls; row locks and deadlocks; failing statements; a crash between the commit of a match and its settlement | the balances table is a ledger, never overdrawn; locks cover what can still trade; nothing oversold; calls end |
| WebSocket path | callbacks of an old socket after those of a new one; the timer against a new connection; both ends noticing a loss on their own; a send that throws | one live connection; the registry's maps agree; what a page is sent it hears in order, once, and nothing of another user's |
| screens | messages against answers to requests, in any order; answers overtaking one another; messages lost while disconnected | once all is settled the page shows what the server has |
| accounts and OAuth | calls overlapping while a password is hashed; a crash between user and wallet; a callback repeated or late | one account per email; every user has a wallet; one login per flow |
| pages | two tabs sharing one token; two copies of every limit | whoever is signed in is served; form and API agree |
| one-time passwords | requests of one user overlapping while emails are sent; expiry and cleanup at the boundary | accepted once, in time, only the latest; kept until used |

The hazards, each at its line and with the properties that watch it, are in
`PROJECT.json`.

## 2. Modules

| module | what it is | extends or uses |
| --- | --- | --- |
| `Trading` | sides, assets, cost of an order, crossing prices, price of a trade, price-time priority: the operators all trading modules share | |
| `Totals` | the sum of a function's values, as a cardinality and so without recursion | |
| `DataProofs` | lemmas about such sums, about what an order locks and about arrays, which the other proofs share | `Totals`, `Arrays`, `Trading`, `TLAPS` |
| `Market` | the abstract exchange while calls run one at a time: asks, deals with the first in priority, rests, withdrawals, and what is said of them | `Trading` |
| `Exchange` | the engine's calls over the in-memory stores, one action per piece of code between awaits | `Trading` |
| `ExchangeProperties` | what engine, book and wallet promise together; the mapping to `Market` | `Exchange`, `Totals`, instance of `Market` |
| `ExchangeOverlaps` | `Exchange` with a memory of whether calls have overlapped, and what holds until they do | `ExchangeProperties` |
| `ExchangeProofs` | theorems about `Exchange`: balances, locks, quantities, the refinement of `Market`, what is left of a call | `ExchangeOverlaps`, `DataProofs` |
| `PriceTimeBook` | the abstract order book: arrivals in order, and a match in one step with the first by price, creation time, arrival | `Trading` |
| `Arrays` | `Array.prototype.filter` and the stable `sort`, by where each element ends up, without recursion | |
| `OrderBookStore` | the in-memory book with its Map and arrays; implements `PriceTimeBook` | `Trading`, `Arrays`, `Totals`, instance of `PriceTimeBook` |
| `OrderBookProofs` | theorems about `OrderBookStore`, the snapshot and the refinement among them | `OrderBookStore`, `DataProofs` |
| `Ledger` | the abstract wallet: whole deposits, locks, releases and trades, none overdrawn | `Trading` |
| `DbExchange` | the engine's calls over Postgres, statement by statement, with row locks, deadlocks, failures and restarts | `Trading` |
| `DbExchangeProperties` | what they promise; the balances table implements `Ledger` | `DbExchange`, `Totals`, instance of `Ledger` |
| `DbExchangeProofs` | theorems about `DbExchange`, the refinement of `Ledger` among them | `DbExchangeProperties`, `DataProofs` |
| `WsClient` | the browser's WebSocket service under the effect that drives it | |
| `Feed` | the abstract WebSocket path as one page sees it: served under an identity or not, what is under way, what it has heard | |
| `Delivery` | bus, broadcaster, registry and upgrade on the server, composed with `WsClient`; implements `Feed` | `WsClient`, instance of `Feed` |
| `DeliveryProofs` | theorems about `WsClient` and `Delivery`, the refinement among them | `Delivery`, `TLAPS` |
| `Screens` | three hooks over the market: requests and their answers, events, losses | `Market`, `Arrays` |
| `ScreensProofs` | theorems about `Screens` | `Screens`, `DataProofs` |
| `Accounts` | registration, login and provider login over either user store, with restarts | |
| `Sessions` | the pages of a browser's tabs and the API's checks, composed with `Accounts` | `Accounts` |
| `SessionsProofs` | theorems about `Accounts` and `Sessions` | `Sessions`, `TLAPS` |
| `Otp` | one-time passwords around the await of the email provider, with restarts | |
| `OtpProofs` | theorems about `Otp` | `Otp`, `TLAPS` |
| `MCExchange`, `MCExchangeWorkloads`, `MCOrderBook`, `MCDbExchange`, `MCDelivery`, `MCScreens`, `MCSessions` | values for the constants and bounds, for TLC | the modules above |

Definitions that begin with a comment `Slip:` are what a definition would be
with a plausible mistake in the code. No specification uses them; `PROJECT.json`
pairs each with the property that notices when it replaces the original.

### Exchange

`Exchange` follows one record per order (`order`): first the engine's copy of an
incoming order, then the book's entry for it, which is the same object in the
code. `pc` says where its `processOrder` call stands and `cancel` where each
`cancelOrder` call stands; `best` and `trade` are what a call carries across an
await. The actions and the code of `Engine.ts` they stand for:

- `Submit`: the service hands over a validated order.
- `ValidateBalance`, `LockFunds`: `validateOrderBalance`, then `lockOrderFunds`
  with the wallet's own check.
- `PeekBest`, `TakeBest`, `PlaceRemainder`: the loop's `atomicMatch` up to its
  await, and after it when it finds a trade or none. A match takes a part of the
  resting order or removes it; no match announces and rests the remainder.
- `SettleTrade`: the wallet's `settleTrade`, which charges and credits the buyer
  before it checks the seller. A failing check leaves the first half done.
- `RecordTrade`: trade and tick stored, the copy's quantity and lock reduced, and
  the loop goes on, releases a residual lock (`ReleaseResidual`) or ends.
- `CancelGetOrder`, `CancelUnlockFunds`, `CancelRemove`: the three pieces of
  `cancelOrder`. `Deposit`: the wallet's `deposit`.

`MaxInFlight` bounds how many calls overlap. The value 1 is what HTTP requests
see; larger values are the callers of one event-loop turn. `ExchangeOverlaps`
remembers whether calls have overlapped (`overlapped`) and whether one of them
was a cancel (`raced`), so that its two properties say of any mixture of calls
what holds until then.

`Market` is what the engine promises in that first case. `AsMarket` maps a call
that is settling or recording to one whose deal is done, an order in the book to
what rests, and `told` to itself, so that the order of announcements is part of
the refinement. That nothing is announced of a resting order which a later one
consumes is in `Market` because it is so in the code (`Engine.ts`, the events of
`processOrder` are all about the taker).

### OrderBookStore

The `Map`, which iterates in insertion order, is the sequence `orders` of ids,
the arrays are the sequences `bids` and `asks`, and `object` has the order
objects. `Filtered` and `Sorted` are a filter and the stable sort by the
comparators. `Arrays` defines both by the final position of each element;
`MCOrderBook` has TLC compare them with `SelectSeq` on all short arrays. `MatchPeek` is
`atomicMatch` up to its await, `MatchTake` and `MatchNothing` what follows, and
every other call may run in between. `Levels` is the snapshot's
`aggregateLevels`: what `levelMap` has for a price is a sum over the array
(`Counted`), its entries are arranged by price. `Exchange` keeps a set `book` and a stamp
`placedAt` in place of the arrays; this module is what justifies that.

### DbExchange

`balance`, `row`/`rows` and `traded` are the tables as committed; `order` is the
engine's copy, from which a row's unchanging columns are read too. A plain
SELECT reads what is committed. `SELECT ... FOR UPDATE` in `atomicMatch` is two
steps: `SelectRow` fixes the rows the statement has in view, `TakeRow` or
`TakeNothing` answers from those still there, each as the last commit left it
(PostgreSQL's READ COMMITTED). Transactions that lock one row, check it and
change it are one step, since nobody sees between. `settleTrade` locks four
balance rows one after another (`LockSettleRow`, with its two checks) and then
commits (`CommitSettle`); `WaitsFor` and `Cycle` are Postgres's deadlock
detection and `DeadlockAbort` its remedy. `Fault` lets the awaited statement
fail, `Restart` kills every call and runs the seed (`Seed`) again.

### WsClient, Feed and Delivery

`WsClient` has the `readyState` of every socket the browser still knows, the
service's `websocket`, `manualClose` and `reconnectTimeout`, and what the page
was last told (`connected`). `RunEffect` is the React effect for a changed
token: `disconnect()`, then `initWebSocket()`; `OnOpen`, `OnClose` and
`OnTimeout` are the callbacks.

`Delivery` adds the server. `asked` is the token in the URL each socket was made
with, read from localStorage at that moment (`BuildsUrl`), which another tab may
have changed (`OtherTab`). `ServerOpen` is `handleUpgrade` and the open handler:
a token that does not verify connects as nobody. `ServerClose` is the close
handler; either end learns of a loss first. `Notify` is one event through the
broadcaster, with any set of sends throwing, which unregisters their connections.
`wire` is what has been sent over a socket and not been read.

`Feed` says what this comes to for the page: it is served under one identity or
not; while it is, everything published for that identity is put on its way, and
what is on its way is heard in order or lost with the connection. `ServedAs` and
`OnTheWay` are the mapping; only the current socket counts.

### Screens

`Screens` puts the hooks `useUserOrders`, `useOrderBook` and `useTradeHistory` on
top of `Market`, each as a page of its own. `Trade`, `Rests`, `Fills` and
`Cancels` are the market's steps with the event each sends; `Answer` and `Fail`
are the server's side of a request, `Load` and `LoadFails` the hook's.
`Recent` is the answer of
`getRecentTrades`, newest first by an arrangement as in `Arrays`.
`Drop` loses what is under way; nothing asks for it again. The ghosts `raced` and
`unannounced` record the cases in which the screen may stay wrong, so that the
properties say precisely when it is right.

### Accounts and Sessions

`Accounts` has the users, the index by email, the wallets that exist and where
each call of `register`, `login` and `oauthLogin` stands; both stores are one
model, since they differ in that the table's UNIQUE column refuses a second row
of an email (`RefusedByIndex`) and in what survives `Restart` (`Backfilled` is the
last statement of `migrate`). `oauthStates` is the controller's Map; a state is
deleted before its age is looked at.

`Sessions` lets the pages of several tabs make those calls. `stored` is the token
in localStorage, `shown` what the React state of each tab says, `request` the
request a tab has under way. `Verdict` is what middleware, controller and service
answer, in the order of their checks; `OrderFormAccepts` and `DepositFormAccepts`
are the schemas of the forms, with limits of their own.

### Otp

`Otp` has the store's entry per user, the requests with the state of their
emails, and the clock. `GenerateOTP` is `sendOtpEmail` up to the await of the
provider, `EmailSent` and `EmailFailed` the two ways on, `VerifyOTP` and
`CleanupExpired` run in one piece. `Restart` loses the codes, which are kept in
memory only. `by`, `accepted` and `failedSince`, the users an email to whom was
found to have failed since their latest request, are there for the properties only.

## 3. What is checked

Twelve runs: nine that pass and three in which TLC finds the code contradict
what the repository says of it.

| run | instance | checks |
| --- | --- | --- |
| `MCExchangeWorkloads` | 2 users; no overlap with 3 orders, or with 2 orders and a deposit; up to two calls at a time with 2 orders; 1 cancel, fair | `TypeOK`, `MoneyAccounted`, `FillsAddUp`, `ImplementsMarket`, `CallsEnd` |
| `MCExchangeConcurrent` | 2 users, 3 orders all overlapping, or 2 and a deposit | `LocksAccounted`, `LockBacksRemainder`, `SettlementNeverFails`, `FillsAddUp`, `TradesWithinLimits` |
| `MCOrderBook` | 3 orders, 2 prices, 2 quantities, 2 creation times | `TypeOK`, `MapAndArraysAgree`, `SnapshotShowsTheBook`, `PriceTimePriority` |
| `MCDbExchangeConcurrent` | 2 users, 3 orders | `TypeOK`, `LocksCover`, `TradesWithinLimits`, `WalletIsALedger` |
| `MCDbExchangeRecovery` | 2 users, 2 orders and 1 cancel, or 2 takers of one maker whose settlements deadlock; deposits of the base asset, 1 failing statement, 1 restart with its seed, fair | `Conservation`, `NeverOversold`, `CallsEnd` |
| `MCDelivery` | 3 sockets, 1 user, 3 runs of the effect or token changes of another tab, 2 events, 4 of them together, fair | `DeliveryTypeOK`, `OneLiveSocket`, `ConnectedIsOpen`, `RegistryAgrees`, `TimerReconnects`, `FeedSpec` |
| `MCScreens` | a page of each hook; 2 users and 2 orders, or 3 orders of one user on the trades page; 3 requests, 1 loss | `ScreensTypeOK`, `OpenOrdersShown`, `BookShown`, `NewestTradeOnTop`, `LiveTradesStay` |
| `MCSessions` | 2 tabs, 2 emails, 2 users, 1 OAuth flow, 1 failing wallet, 1 restart, either store, 10 order forms and 4 amounts at the limits | `SessionsTypeOK`, `OneAccountPerEmail`, `WalletOrReason`, `OneLoginPerState`, `FormMatchesApi`, `SignedInIsServed` |
| `OtpRequests` | 2 users, 2 codes, 3 requests, clock to 3, codes valid for 1, restarts | `KeptUntilUsed`, `AcceptsOnceAndInTime` |

What they show:

- One call at a time, the in-memory exchange is the atomic `Market`: every deal
  is with the first in price-time priority, nothing that crosses ever rests, and
  what is announced follows what happened. Its money and its locks stay in step.
- Overlapping `processOrder` calls cannot sell a unit twice or make a settlement
  fail: `atomicMatch` looks the order up again after its await. Two calls that
  both find no match before either rests do leave a crossed book, and a cancel
  that has read its order loses against a fill; `ImplementsMarket`
  therefore speaks of what happens until calls overlap, `MoneyAccounted` of what
  happens until a cancel overlaps another call.
- The in-memory book is a price-time book. The one exception, named in
  `HeadHasChanged`, is an `atomicMatch` whose head of the book changes during
  its await: it takes the former head if that is still there, or nothing.
- Over Postgres, whatever interleaves, fails or restarts, the balances table
  changes by whole ledger operations and is never overdrawn, and no row is sold
  twice. Calls end: of two settlements that wait for each other's rows Postgres aborts
  one, whose call throws, and the other goes on.
- The WebSocket path is a `Feed`: at most one connection is live, the registry
  forgets no connection and keeps none too long, and what is heard is heard in
  order, once, by the identity it was meant for. A timer that is set leads to an
  attempt to connect, and the page never shows a connection that is down. The
  converse fails: a late `onclose` of the old socket makes it show "Connecting"
  over a live connection, and a send that throws takes a connection out of the
  registry that the page goes on showing as connected.
- A page that has settled shows what the server has, outside the cases its
  property names: an event during a load, an answer that overtook another, a
  loss, and changes the engine does not announce to it. In each of these the
  screen can stay wrong until it is mounted again.
- With Postgres an email has one account. In memory two overlapping
  registrations of one email make two users. No crash leaves a user without a
  wallet, a flow logs in once, and forms and API agree on the limits of deposits
  and of LIMIT orders. Whoever is signed in is served: with Postgres only a token
  that is missing or has expired is unauthorized, and a wallet is not found only
  while it is being made, after that failed, or for the balance of a user whom
  another tab's sign-in has replaced. In memory a restart forgets every user, so
  that a token from before it is unauthorized.
- A one-time password is accepted at most once, in time and only as its user's
  latest. It is there until it is used, expires or is lost in a restart, unless an
  email to that user is found to have failed after the code was made: the code of a
  retry stays, but the late failure of an older email deletes a newer code.

Where the code contradicts the repository:

| run | property | what happens |
| --- | --- | --- |
| `MCExchangeTrappedLock` | `NothingTrapped` | a resting buy filled by a cheaper sell leaves the price improvement locked for ever; README: "balances are released on cancellation/fill" |
| `MCDbExchangeStaleCancel` | `ReleasesTheResidual` | `cancelOrder` releases the amount it read before a fill consumed part of it; comment: "Exact residual lock" |
| `WsClientNoRetry` | `RetriedWhenDown` | `disconnect()` of a socket that is already closed leaves `manualClose` set, and the next drop is not retried; README: "auto-reconnects" |

Other differences met while reading, visible in the models and without a run of
their own:

- A settlement aborted by a deadlock or a failed statement loses the quantity its
  match has taken: it is traded by nobody and in no row (`DeadlockAbort`, `Fault`).
- The Cancel button sends an order's id only; `order-controller.ts:100-103`
  requires a `userId`, as `README.md:207` has it, so the page's cancels are
  refused (`ClickCancel`, `Verdict`).
- A MARKET order is sent with price 0 and refused by `order-controller.ts:238`;
  a symbol without a slash passes the form and is refused by
  `validateBusinessRules` (`FormMatchesApi` leaves both out).
- An order is placed for the `userId` of its body, whoever the token names; only
  deposits are compared (`MayDeposit`).
- The frontend has no page `/auth/callback`: the token of a provider login is
  lost (`SignedIn`). `initiate` answers JSON rather than a redirect, and the
  provider's URL carries two `state` parameters.

### Bounds

Prices and quantities are `{1, 2}` (one price in the Postgres runs with a cancel
and in `MCScreens`): two prices make crossing, equal and non-crossing orders and
a price improvement, two quantities make exact, partial and multiple fills. Funds
of 2 base and 4 quote let a user place the largest order or two small ones, and
reject a third; in `MCDbExchangeRecovery` 1 and 2 suffice for a sale of one unit until a
deposit of the base asset. Two users give trades between users and with oneself; three orders are
the least in which two takers compete for one maker, a taker meets two makers, or
a cancel disturbs a user's other order. `Within` in `MCExchangeWorkloads`
splits what would be too large as a product (a third order only while nothing
has overlapped, a deposit only then and with two orders); `TwoTakers` in
`MCDbExchange` lets a third order into `MCDbExchangeRecovery` as the second taker of
a sale of two units while the first runs, which is the least for two settlements to
wait for each other (one of them with oneself), and then no cancel; `DepositAmongTwoOrders` in
`MCExchange` does the same for the deposit. One fault and one restart reach every
statement at which either can strike, since nothing accumulates over them. In
`MCOrderBook` `Amended` limits `updateOrder` to the second order, which has a
neighbour on each side.

Sockets are used again once nobody holds them. It takes three runs of the effect
for two closes to overlap, of which `manualClose` remembers one, and two events
to have an order; `MaxInputs` bounds their sum, since no case needs all of them.
One user suffices in `MCDelivery`, since nobody and everybody are the other
identities and audiences; the theorems have no such bound. In `MCScreens` a
`Limit` of 2 is reached by two trades, which takes three orders; whose they are
does not matter to that page, and the first is a sale since sides are alike.
Three requests are one load and two refreshes. In `MCSessions` `UserIds` and
`Room` bound the users made (the second one of an email included), `MaxRequests`
the requests under way at once, and the forms lie at and just past each limit.
Users with equal funds and tabs are interchangeable, so safety runs use that
symmetry; runs with liveness do not.

`CHECK_DEADLOCK FALSE` stands where the system may stop: all orders of the
instance have been placed and nobody has to place another.

### Fairness

A call that waits for an await is resumed (`WF` of each call's next step, in
`Exchange` and `DbExchange`): the event loop is a queue, and Postgres answers a
statement whose locks are free and breaks deadlocks. Nothing else is due: no
order has to arrive, no statement to fail, no server to restart. In `WsClient`
and `Delivery` a set timer fires, the browser reports in the end how a `close()`,
an attempt to connect or a hang-up of the server went, the server notices that a
browser is gone, and a message that has arrived is dispatched; drops and token
changes are not due. `Feed` is fair to `Hear` alone, which `Delivery` implements
with that. `Screens`, `Sessions` and `Otp` state no liveness and have no fairness.

## 4. What is proved

All theorems hold for every value of the constants, from the assumptions named in
the modules only: some users, ids and amounts that are positive, finitely many
users, orders, cancels and browser tabs, names that do not clash. None bounds how
many of anything there are, and TLC evaluates each on the runs of its module.

### Sums and arrays

Proofs about a fold over a set need induction with an operator parameter, which
the provers cannot instantiate. `Total(f)` counts one pair for each unit of each
value of `f` instead, so facts about cardinalities carry over: changing `f` at one
point changes the sum by the difference (`TotalChanges`), the same values under
other names have the same sum (`TotalRenamed`), and a sum may be taken part by
part (`TotalByParts`): the last two by a bijection between the units. `MCExchange`
has TLC compare it with the community modules' fold. In the same way `Arrays`
gives the place of an element by counting those before it, and a linear order of
finitely many positions ranks them 1, 2, ... without a gap (`RanksAreReached`).
All of this is in `DataProofs`.

### `ExchangeProofs`

However calls overlap:

- `TypeCorrect`: `Spec => []TypeOK`. Balances and locks never go negative:
  nobody's lock is released or spent twice.
- `LocksBackOrders`: `Spec => []LockBacksRemainder`. The residual lock of every
  order that can still trade pays for its remainder at its limit price, so
  `cancelOrder`'s nominal fallback is never needed.
- `TradesAreWithinLimits`: `Spec => []TradesWithinLimits`.

None of the three is inductive by itself. The invariant `IInv` of the proofs
joins `TypeOK` and `LockBacksRemainder` with facts about what calls carry across
their awaits: only orders whose call ended by placing them are in the book
(`BookIsPlaced`); the order read as best is of the other side and has been placed
(`BestIsOpposite`); a trade under way is between two sides, within both limits
and of no more than its taker has left (`TradeFits`); a call carries a trade only
between taking and the end of recording (`TradeUnderWay`); nobody trades or rests
with nothing left (`QuantityLeft`); a cancel under way names an order
(`CancelsKnown`). The argument turns on one step: what `TakeBest` and
`RecordTrade` subtract from a `lockedAmount` is the cost of the trade at a price
no worse than the limit, so the rest of the lock still pays for the rest of the
order (lemma `LockSplits`). That keeps the field a natural number, and with it
every amount `cancelOrder` and `ReleaseResidual` hand back.

When no cancel overlaps a match (`CancelsDoNotRace`: calls run one at a time,
which is what HTTP requests see, or nobody cancels, and then calls may overlap
freely):

- `SettlementsSucceed`: `Spec => []SettlementNeverFails`.
- `LocksAreAccounted`: `Spec => []LocksAccounted`.
- `MoneyIsConserved`: `Spec => []Conservation`.

These three are what `MoneyAccounted` of the run puts together. Without the
condition they are false: a cancel that has released an order's lock leaves a
match of it to be settled from other orders' locks, or not at all. `MInv` adds to
`IInv` that a cancel under way is alone (`CancelsAlone`), that a sale has locked
exactly what it has left (`SellLockExact`), and that per user and side the wallet
has locked what `Residuals` and trades under way claim (`Covered`); equality for
sales, at least as much for buys, whose price improvement stays locked. A
settlement then finds both locks, because its own trade is one of the claims.

- `FillsAlwaysAddUp`: `Spec => []FillsAddUp`, however calls overlap. The
  invariant counts an order's units while its call runs, too (`Accounted`).
- `ImplementsTheMarket`: with `MaxInFlight <= 1`, `Spec => AsMarket!MarketSpec`,
  the initial state and every step. `AInv` adds that no two calls overlap
  (`CallsAlone`), that hence the order read as best is still a first one when it
  is taken (`BestIsFirst`), and that as many orders have been placed as the next
  `placedAt` stamp says (`PlacedInTurn`), which makes an order that starts to rest the
  last of its price.

For any mixture of calls, whatever `MaxInFlight`:

- `MarketUntilOverlapped`: `OverlapSpec => ImplementsMarket`.
- `MoneyStaysAccounted`: `OverlapSpec => []MoneyAccounted`.

Each step preserves `AInv` as long as calls are alone after it, and `MInv` as long
as cancels are; `UntilOverlapped` says that either has held until the memory says
otherwise.

- `CallsRunOut`: `StepsLeft`, four steps for each unit an order has left and those
  before the loop, is a natural number that is 0 only for a call that has ended;
  each step of a call lowers its own and leaves everybody else's as it is. So no
  interleaving makes the matching loop of `processOrder` spin.

### `OrderBookProofs`

For any number of orders, prices and times, whatever runs during the await of an
`atomicMatch`:

- `StoreIsWellTyped`: `Spec => []TypeOK`.
- `MapAndArraysStayOneBook`: `Spec => []MapAndArraysAgree`.
- `StoreImplementsTheBook`: `Spec => PriceTimePriority`.
- `SnapshotIsTheBook`: `Spec => []SnapshotShowsTheBook`. The Map in insertion order
  and a sorted array have the same orders, each once, so one renames the other
  (`SameElementsLineUp`) and both add up to the same amounts, in all and at each
  price (`SameAmounts`). Every order is at exactly one level, so the levels add
  up to the orders (`LevelsAddUp`), and the first level of a side is where the
  array begins (`FirstIsBestPriced`).

`BInv` says what agreement needs to be inductive. The ids in the Map rise, since
they are given out in turn and a Map iterates in the order of insertion; each
array has the Map's orders of its side (`Mirrors`), lined up by price, then
`createdAt`, then id. A stable sort keeps orders that the comparator finds equal
as they were, which is by id; so after `sort` the array is again lined up by the
order that `PriceTimeBook` has for its matches, and its head is the abstract
book's first (`SortedIsSorted`).

### `DbExchangeProofs`

However many calls overlap, fail at a statement, meet in a deadlock or die with
the server:

- `TablesAreWellTyped`, `TradesAreWithinBothLimits`: `Spec => []TypeOK` and
  `[]TradesWithinLimits`. The inductive `IInv` says what a call carries between
  two statements (`CallFits`, `TradeFits`), that a row belongs to a call that
  ended open and pays for what it offers (`RowFits`), and that row locks are
  exclusive, so that what `settleTrade` has checked in a row stays true while it
  holds it (`LockFits`).
- `WalletImplementsLedger`: `Spec => WalletIsALedger`. Each step leaves the
  `balances` table alone or is one whole operation of `Ledger`.
- `OnlyDepositsMakeMoney`: `Spec => []Conservation`.
- `NothingIsOversold`: `Spec => []NeverOversold`. An order's units are with its
  call, or in its row and with the calls that matched it (`FillFits`). A call
  that dies only gives units up, so this is an inequality.
- `LocksCoverTheOrders`: `Spec => []LocksCover`. A trade that is settling is
  claimed by the taker's copy on one side and is owed on the other (`Owing`);
  `Claims` never grows but with the lock that pays for it.
- `CallsRunOut`: as with the in-memory stores, eight statements for each unit, the
  row locks of `settleTrade` counted one by one. A call that throws or dies has
  nothing left.
- `NobodyWaitsForEver`: while calls are under way, one of them is not waiting for a
  row, or is in a cycle, which Postgres breaks. Only settlements keep a row from
  statement to statement; of finitely many that all wait for each other, a
  smallest set that still does is a `Cycle` (`WaitersAreACycle`).

`Steady` collects what no step changes of an order whose call has begun, so that
a fact about one call survives the steps of the others.

### `DeliveryProofs`

The assumptions are that no socket is `NoSocket` and that the names `Anonymous`,
`Everyone`, `Absent` and `NoToken` are nobody's.

- `OneConnection`, `ConnectedIsTrue`: `DeliverySpec => []OneLiveSocket` and
  `[]ConnectedIsOpen`. With `TypeOK` of `WsClient` they are inductive
  (`ConnectionInv`): the timer makes a socket only when none is live, and the
  effect closes the one there is, after which a socket that is closing accounts
  for a flag that still says "connected".
- `RegistryStaysWhole`: `DeliverySpec => []RegistryAgrees`. It needs that a
  connection is registered only while the server's end of it is open, so that an
  upgrade never registers one under a second identity (`ServerInv`).
- `DeliveryIsWellTyped`: `DeliverySpec => []DeliveryTypeOK`, with both types of
  the composition.
- `DeliveryImplementsFeed`: every step of `Delivery` is a step or a stutter of
  `Feed`. `ServerInv` adds that nothing is on the wire of a socket that is not
  live or not taken up yet; hence a new current socket starts as not served, with
  nothing under way (`ReplacedIsLost`), and by `RegistryAgrees` the recipients of
  an event are those the Feed sends it to (`SeenByRecipients`).

### `ScreensProofs`

For any number of users, orders, requests and losses and any `Limit`:

- `ScreensTypes`: `ScreensSpec => []ScreensTypeOK`.
- `OrdersAreShown`, `LevelsAreShown`, `NewestIsShown`: `OpenOrdersShown`,
  `BookShown` and `NewestTradeOnTop`.
- `LiveTradesAreKept`: `ScreensSpec => LiveTradesStay`.

What a settled page shows is decided long before it settles, so `SInv` says of each
page where the truth is in the meantime. `LivesFit` is the life of an order: its
size is what it has bought, what it is taking and what rests, until it is
cancelled. `WireFits` ties the events on their way to it: none tells what has not
happened, a cancellation comes after the placing of the same order, and the
latest trade on the wire is the latest there is. Then

- the list of the orders page, once it has heard what is on the wire (`Becomes`),
  agrees with the server, or the answer it waits for does (`OrdersPageFits`);
- the book page will hear an event that makes it load again, or an earlier request
  is unanswered and bound to be overtaken, or its latest request will have or has
  brought the book (`BookPageFits`);
- the newest trade is on the wire, or on top of the page, or on top of the answer
  to the load if none came live before (`TradesPageFits`).

### `SessionsProofs`

The assumptions are that there are emails, finitely many clients, user ids from 1
up, and forms made of strings and amounts. `SessionsStep` reduces the steps of the
pages to those of `Accounts`.

- `FlowsLogInOnce`: a state that has let a login through is gone (`FlowInv`).
- `WalletsAreThere`: `WalletOrReason`, inductive given that calls past
  `createUser` carry the user they made (`CallsInv`).
- `EmailsHaveOneAccount`: `OneAccountPerEmail` is not inductive. `EmailInv`
  strengthens it: every token answered for an email names the user the index has
  for it, and so does every call that is about to answer.
- `SignedInIsAlwaysServed`: `SignedInIsServed`. A call past `createUser`, the index
  and, with Postgres, every live token stored or sent name a user that is there
  (`HoldersInv`, `TokensNameUsers`), of whom `WalletOrReason` says what became of the
  wallet; only `Serve` answers (`OnlyServeAnswers`).
- `FormsAgreeWithApi`: `FormMatchesApi` for every amount and every LIMIT order of
  a pair. Each request remembers the form it was made from and was stopped by the
  page exactly when the form's schema refuses (`FormInv`); the schemas and the
  API's checks have the same bounds (`DepositLimitsAgree`, `OrderLimitsAgree`).
- `SessionsAreWellTyped`: `SessionsTypeOK`. That no more users are made than there
  is room for needs the calls about to create one counted with those made
  (`AccountsInv`).

### `OtpProofs`

For any number of users, codes and requests, any lifetime and any number of
restarts:

- `CodesAreKept`: `Spec => []KeptUntilUsed`; only a failure handled after the latest
  request is excepted, which `failedSince` remembers.
- `AcceptedOnceInTime`: `Spec => AcceptsOnceAndInTime`.

`OtpInv` adds that requests are numbered as they are made and that each entry was
made by the latest request of its user, which nobody has used, and expires `TTL`
after it (`MadeByLatest`). So `verifyOTP`, which looks at user, code and expiry
only, accepts for that request, and a cleanup takes no entry that is still good.
`OthersKeep` says what a step without a new request has to keep for this.

### Model-checked only

- Liveness, which is out of the prover's reach with `ENABLED`: `CallsEnd` with
  either store, `TimerReconnects`, and the fairness part of `FeedSpec`. Of
  `CallsEnd` it is proved that calls have finitely many steps left and, over
  Postgres, that somebody can always take one (`CallsRunOut`,
  `NobodyWaitsForEver`); that each call gets its turn is what fairness adds.
- That the definitions of `Totals` and `Arrays` compute what the folds, `filter`
  and `sort` they stand for do needs induction over data; `MCExchange` and
  `MCOrderBook` have TLC compare them on small inputs.
- What TLC finds violated (`NothingTrapped`, `ReleasesTheResidual`,
  `RetriedWhenDown`) is false, and nothing is proved of it.

## 5. What is left out

- Amounts are IEEE doubles in the code and whole units (thousandths in
  `Sessions`) here; rounding is out of reach.
- One symbol and two assets; the frontend trades one symbol. The in-memory book
  does not compare symbols (`orderbook-store.ts:166`). Order ids come from the
  clock and a counter; here they are distinct from the start.
- The order type: the engine ignores it, MARKET orders carry a price from the
  service.
- The branch of `processOrder` for a remainder of quantity 0 without a match,
  which validation makes unreachable, and `createOrder`, which nothing calls.
- In the trading modules every user has both balance entries from the start;
  `createWallet` is an action of `Accounts`.
- `CancelRemove` removes an order and announces its cancellation in one step,
  and `RecordTrade` joins `recordTrade`, `recordTick` and the update of the
  engine's copy: none of these has an observer in between. `ORDER_PLACED` is
  announced before the row is inserted (`Engine.ts:96`) and `TRADE_EXECUTED`
  before the settlement (`Engine.ts:352`); `Screens` stands on `Market`, where
  the stores are in memory and nothing is served in between.
- `updateOrder` leaves a copy of the object in its array. The only field that can
  differ later is a quantity that no caller reads, so the model keeps one object.
- The hooks that write a text per event (`useActivityHistory`,
  `useWebSocketToasts`), rendering, formatters, static pages, CORS, logging and
  email providers: no state of their own that anything depends on, or external.

## 6. Plan

Every module of the plan is written and checked, and every invariant and action
property of a passing run is a theorem. What is left is what this toolset does not
reach: liveness proofs, rounding, and the parts section 5 lists. Next in line
would be the text the activity feed and the toasts make of each event, and
partial deliveries of a half-open socket.
