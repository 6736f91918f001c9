SPECIFICATION MCSpec
CONSTANTS
    Alice = Alice
    Bob = Bob
    Users <- TwoUsers
    OrderIds = {1, 2, 3}
    Cancels = {"c1"}
    Prices = {1, 2}
    Quantities = {1, 2}
    InitialFunds <- EqualFunds
    DepositAmount = 1
    MaxDeposits = 1
    MaxClock = 0
    MaxInFlight = 2
INVARIANTS
    TypeOK
    MoneyAccounted
    FillsAddUp
PROPERTIES
    ImplementsMarket
    CallsEnd
CHECK_DEADLOCK FALSE
