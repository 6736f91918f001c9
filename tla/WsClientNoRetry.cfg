SPECIFICATION Spec
CONSTANTS
    Sockets = {s1, s2, s3, s4, s5}
    NoSocket = NoSocket
    MaxRuns = 4
INVARIANT RetriedWhenDown
