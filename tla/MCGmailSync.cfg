CONSTANTS
    None = None
    Mail <- TwoMessages
    Batch = 1
    Sync = {cron, manual}
    Cron = {cron}
    MaxRequests = 3
    MaxFaults = 1
CHECK_DEADLOCK FALSE
SPECIFICATION FairSpec
INVARIANTS
    CursorCoversMail
    LoggedRidesWereStored
PROPERTIES
    RidesArrive
    PromptIsCleared
