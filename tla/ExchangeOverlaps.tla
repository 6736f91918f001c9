-------------------------- MODULE ExchangeOverlaps --------------------------
(***************************************************************************)
(* Exchange with a memory of whether calls have overlapped, so that what   *)
(* holds until they do can be stated for any mixture of calls.             *)
(***************************************************************************)
EXTENDS ExchangeProperties

VARIABLES
    overlapped,     \* two calls have been under way at a time
    raced           \* two calls, one of them a cancelOrder

overlapVars == <<vars, overlapped, raced>>

Overlaps == InFlight > 1
Races    == Overlaps /\ \E c \in Cancels : cancel[c].at \in Cancelling

OverlapInit == Init /\ overlapped = FALSE /\ raced = FALSE

OverlapNext ==
    /\ Next
    /\ overlapped' = (overlapped \/ Overlaps')
    /\ raced' = (raced \/ Races')

OverlapSpec == OverlapInit /\ [][OverlapNext]_overlapVars

-----------------------------------------------------------------------------

\* Until calls overlap, the engine, the book and the wallet together are the
\* atomic Market: at each trade the counterparty is first in price-time
\* priority, nothing crossing ever rests, and what is announced follows what
\* happened (processOrder, atomicMatch and cancelOrder across their awaits).
ImplementsMarket ==
    AsMarket!MarketInit /\ [][~overlapped' => AsMarket!MarketNext]_(AsMarket!marketVars)

\* Until a cancel overlaps another call, deposits and overlapping processOrder
\* calls included, no call fails after it has moved anything, nothing is
\* created or lost, and the wallet's locks are those of the orders in the book.
MoneyAccounted ==
    ~raced => Conservation /\ LocksAccounted /\ SettlementNeverFails
=============================================================================
