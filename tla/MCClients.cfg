CONSTANTS
    User = {u1, u2}
    Device = {d1}
    Request = {r1, r2}
    Handler = {h1}
    MaxKeysPerUser = 1
    MaxRequests = 3
    MaxFaults = 1
    Null = Null
CHECK_DEADLOCK FALSE
SYMMETRY AnyNames
SPECIFICATION Spec
INVARIANTS
    RowsAreAsAsked
    KeyLimit
    PushesWereAllowed
