SPECIFICATION Spec
CONSTANTS
    Alice = Alice
    Bob = Bob
    Users <- TwoUsers
    OrderIds = {1, 2, 3}
    Cancels = {}
    Prices = {1, 2}
    Quantities = {1, 2}
    InitialFunds <- EqualFunds
    DepositAmount = 1
    Seeded = {}
    MaxDeposits = 0
    MaxClock = 0
    MaxFaults = 0
    MaxRestarts = 0
SYMMETRY UserSymmetry
INVARIANTS
    TypeOK
    LocksCover
    TradesWithinLimits
PROPERTY WalletIsALedger
CHECK_DEADLOCK FALSE
