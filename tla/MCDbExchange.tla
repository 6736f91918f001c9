---------------------------- MODULE MCDbExchange ----------------------------
(***************************************************************************)
(* Instances of DbExchange for TLC.                                        *)
(***************************************************************************)
EXTENDS DbExchangeProperties, TLC

CONSTANTS Alice, Bob

TwoUsers    == {Alice, Bob}
EqualFunds  == [base |-> 2, quote |-> 4]

\* Enough for one unit each; more takes a deposit.
ScarceFunds == [base |-> 1, quote |-> 2]

\* Users begin with equal funds; where nobody is seeded they are alike.
UserSymmetry == Permutations(Users)

\* seedDatabase deposits quote currency to alice and the base asset to bob.
\* Here it is one balance, so that a deposit on top of it stays in bounds.
SeedOfAlice == {<<Alice, "quote">>}

\* A bound: there are two orders and a cancel, or a third order and no cancel.
\* The third is the second taker of one maker and comes while the first runs, so
\* that two settlements overlap.  The base asset is the scarce one: a sale of two
\* units takes a deposit.
TwoTakers ==
    /\ pc[2] \in Processing
    /\ order'[1].side = "sell" /\ order'[1].size = 2
    /\ \A o \in {2, 3} : order'[o].side = "buy" /\ order'[o].size = 1
    /\ \A c \in Cancels : cancel[c].at = "idle"

RecoveryArrive ==
    \/ \E u \in Users : Deposit(u, "base")
    \/ \E u \in Users, a \in Assets : Seed(u, a)
    \/ \E o \in {1, 2}, u \in Users, s \in Sides, p \in Prices, q \in Quantities :
          Submit(o, u, s, p, q, clock)
    \/ \E u \in Users, p \in Prices : Submit(3, u, "buy", p, 1, clock) /\ TwoTakers
    \/ /\ pc[3] = "idle"
       /\ \E c \in Cancels, o \in {1, 2} : CancelGetOrder(c, o)

RecoveryNext ==
    \/ RecoveryArrive
    \/ \E o \in OrderIds : Process(o) \/ Fault(o)
    \/ \E c \in Cancels : ProcessCancel(c) \/ CancelFault(c)
    \/ Restart

RecoverySpec == Init /\ [][RecoveryNext]_vars /\ Fairness
=============================================================================
