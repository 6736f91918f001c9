------------------------------- MODULE Ledger -------------------------------
(***************************************************************************)
(* What a wallet promises: each change of the balances is one whole        *)
(* deposit, lock, release or trade, and none takes more than is there.     *)
(***************************************************************************)
EXTENDS Trading

CONSTANTS Users, InitialFunds, DepositAmount

VARIABLE balance

LedgerInit ==
    balance = [u \in Users |-> [a \in Assets |-> [available |-> InitialFunds[a], locked |-> 0]]]

Credit(u, a) ==
    balance' = [balance EXCEPT ![u][a].available = @ + DepositAmount]

Lock(u, a) == \E n \in 1..balance[u][a].available :
    balance' = [balance EXCEPT ![u][a] = [available |-> @.available - n, locked |-> @.locked + n]]

Release(u, a) == \E n \in 1..balance[u][a].locked :
    balance' = [balance EXCEPT ![u][a] = [available |-> @.available + n, locked |-> @.locked - n]]

\* Both legs move, or neither; each pays out of what it had locked.
Exchanged(buyer, seller) ==
    \E value \in 1..balance[buyer]["quote"].locked, quantity \in 1..balance[seller]["base"].locked :
        balance' = [balance EXCEPT
            ![buyer]["quote"].locked     = @ - value,
            ![buyer]["base"].available   = @ + quantity,
            ![seller]["base"].locked     = @ - quantity,
            ![seller]["quote"].available = @ + value]

LedgerNext ==
    \/ \E u \in Users, a \in Assets : Credit(u, a) \/ Lock(u, a) \/ Release(u, a)
    \/ \E buyer, seller \in Users : Exchanged(buyer, seller)

LedgerSpec == LedgerInit /\ [][LedgerNext]_balance
=============================================================================
