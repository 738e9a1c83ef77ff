CONSTANTS
    None = None
    ModeGroup <- Groups
    Id = {a1, a2, a3, a4}
    Input = {"gps", "later", "mail", "bus"}
    Kind <- KindsOf
    TripOf <- Trips
    NewStart = {}
    Request = {r1}
CHECK_DEADLOCK FALSE
SPECIFICATION Spec
INVARIANTS
    RidesAreKept
    

    
    
