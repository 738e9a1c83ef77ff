CONSTANTS
    Null = Null
    Run = {r1, r2}
    Query <- Trips
    Region = {"IN", "US"}
    MaxSeedings = 2
    MaxFaults = 1
CHECK_DEADLOCK FALSE
SPECIFICATION FairSpec
INVARIANTS
    AppliedOnceInOrder
    EveryTripIsPriced
PROPERTIES
    MigrationsFinish
    
