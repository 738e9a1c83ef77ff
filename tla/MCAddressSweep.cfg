CONSTANTS
    home = home
    sea = sea
    Place <- Trips
    Known <- OnLand
    Sweep = {s1, s2}
    Limit = 2
    MaxWrites = 2
    MaxFaults = 1
    Null = Null
CHECK_DEADLOCK FALSE
SPECIFICATION FairSpec
INVARIANTS
    ReceiptsPrevail
    PaidOnce
PROPERTIES
    SweepsReachAll
