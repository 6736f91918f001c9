SPECIFICATION Spec
CONSTANTS
    Alice = Alice
    Bob = Bob
    Users <- TwoUsers
    OrderIds = {1, 2}
    Cancels = {}
    Prices = {1, 2}
    Quantities = {1, 2}
    InitialFunds <- EqualFunds
    DepositAmount = 1
    MaxDeposits = 0
    MaxClock = 0
    MaxInFlight = 1
INVARIANT NothingTrapped
CHECK_DEADLOCK FALSE
