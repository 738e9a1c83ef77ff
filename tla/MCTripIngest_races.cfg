CONSTANTS
    None = None
    ModeGroup <- Groups
    Id = {a1, a2, a3}
    Input = {"gps", "mail", "invoice"}
    Kind <- KindsOf
    TripOf <- Trips
    NewStart = {}
    Request = {r1, r2}
CHECK_DEADLOCK FALSE
SPECIFICATION Spec
INVARIANTS
    DuplicatesAreStored
    ReceiptsInOneRow
SYMMETRY AnyOrder
