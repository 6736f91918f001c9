SPECIFICATION MCSpec
CONSTANTS
    Sockets = {s1, s2, s3}
    NoSocket = NoSocket
    MaxRuns = 3
    Users = {u1}
    Anonymous = Anonymous
    Everyone = Everyone
    Absent = Absent
    NoToken = NoToken
    MaxEvents = 2
    MaxInputs = 4
INVARIANTS
    DeliveryTypeOK
    OneLiveSocket
    ConnectedIsOpen
    RegistryAgrees
PROPERTIES
    TimerReconnects
    FeedSpec
CHECK_DEADLOCK FALSE
