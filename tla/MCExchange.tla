----------------------------- MODULE MCExchange -----------------------------
(***************************************************************************)
(* Instances of Exchange for TLC.                                          *)
(***************************************************************************)
EXTENDS ExchangeProperties, FiniteSetsExt, TLC

CONSTANTS Alice, Bob

\* Orders of one user against another's, and against that user's own.
TwoUsers   == {Alice, Bob}

EqualFunds == [base |-> 2, quote |-> 4]

\* Users begin with equal funds, so they can be exchanged for one another.
UserSymmetry == Permutations(Users)

\* A total is the sum the community modules' fold computes.
ASSUME TotalIsTheSum ==
    \A f \in [{1, 2, 3} -> 0..3] : Total(f) = MapThenSumSet(LAMBDA x : f[x], {1, 2, 3})

\* A bound: there is a deposit among two orders, and none among three.
DepositAmongTwoOrders == deposits' > 0 => pc'[3] = "idle"
=============================================================================
