SPECIFICATION Spec
CONSTANTS
    Alice = Alice
    Bob = Bob
    Users <- TwoUsers
    OrderIds = {1, 2, 3}
    Cancels = {}
    Prices = {1, 2}
    Quantities = {1, 2}
    InitialFunds <- EqualFunds
    DepositAmount = 1
    MaxDeposits = 1
    MaxClock = 0
    MaxInFlight = 3
SYMMETRY UserSymmetry
ACTION_CONSTRAINT DepositAmongTwoOrders
INVARIANTS
    LocksAccounted
    LockBacksRemainder
    SettlementNeverFails
    FillsAddUp
    TradesWithinLimits
CHECK_DEADLOCK FALSE
