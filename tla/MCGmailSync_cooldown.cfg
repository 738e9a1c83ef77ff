CONSTANTS
    None = None
    Mail <- OneRide
    Batch = 1
    Sync = {api, worker}
    Cron = {api, worker}
    MaxRequests = 1
    MaxFaults = 0
CHECK_DEADLOCK FALSE
SPECIFICATION Spec
PROPERTIES
    CooldownIsKept
