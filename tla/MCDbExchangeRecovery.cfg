SPECIFICATION RecoverySpec
CONSTANTS
    Alice = Alice
    Bob = Bob
    Users <- TwoUsers
    OrderIds = {1, 2, 3}
    Cancels = {"c1"}
    Prices = {1}
    Quantities = {1, 2}
    InitialFunds <- ScarceFunds
    DepositAmount = 1
    Seeded <- SeedOfAlice
    MaxDeposits = 2
    MaxClock = 0
    MaxFaults = 1
    MaxRestarts = 1
INVARIANTS
    Conservation
    NeverOversold
PROPERTIES
    CallsEnd
CHECK_DEADLOCK FALSE
