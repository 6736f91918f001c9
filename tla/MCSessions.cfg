SPECIFICATION SessionsSpec
CONSTANTS
    t1 = t1
    t2 = t2
    Clients = {t1, t2}
    Emails = {"a@x", "b@x"}
    UserIds = {1, 2}
    StateKeys = {"k1"}
    MaxRestarts = 1
    MaxRequests = 1
    MaxFailures = 1
    OrderForms <- MCOrderForms
    Amounts <- MCAmounts
SYMMETRY TabSymmetry
INVARIANTS
    SessionsTypeOK
    OneAccountPerEmail
    WalletOrReason
    OneLoginPerState
    FormMatchesApi
 
