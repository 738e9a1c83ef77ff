CONSTANTS
    a1 = a1
    r1 = r1
    r2 = r2
    api = api
    worker = worker
    Activity = {a1}
    Trip = {short, unknown, nodist}
    NoFactor = {unknown}
    BadInput = {nodist}
    Day = {mon, tue}
    Moves <- AnyMove
    Request = {r1, r2}
    Targets <- AnyTarget
    Process = {api, worker}
    ProcessOf <- TwoProcesses
    MaxFaults = 1
    Null = Null
CHECK_DEADLOCK FALSE
SPECIFICATION FairSpec
INVARIANTS
    EmissionHasActivity
    ProcessedHasEmission
    PendingHasHandler
PROPERTIES
    PendingIsDecided
