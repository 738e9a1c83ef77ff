CONSTANTS
    None = None
    Elsewhere = Elsewhere
    ModeGroup <- Groups
    Message = {1, 2}
    Mailboxes <- PairsOfMail
    Workers = 2
    Slots = 1
    MaxAttempts = 2
    Reply <- Replies
    Tracked <- TrackedTrips
    Now = 5000
    MaxFaults = 1
CHECK_DEADLOCK FALSE
SPECIFICATION FairSpec
INVARIANTS
    ReadableRidesAreRead
    QueueIsRetried
    GroqIsSpared
    TrackedRidesAreFound
PROPERTIES
    ReadingEnds
