SPECIFICATION Spec
CONSTANTS
    Users = {u1, u2}
    Codes = {c1, c2}
    TTL = 1
    MaxTime = 3
    MaxRequests = 3
INVARIANTS
    KeptUntilUsed
PROPERTY AcceptsOnceAndInTime
CHECK_DEADLOCK FALSE
