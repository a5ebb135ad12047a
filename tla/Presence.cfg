CONSTANTS
    front = front
    back = back
    Remotes <- TwoRemotes
    Throttled <- OneThrottled
    AnnounceEvery = 2
    PruneEvery = 2
    PruneAfter = 10
    PingEvery = 4
    MaxDelay = 1
    MaxEvents = 2

SPECIFICATION Safety
CHECK_DEADLOCK FALSE
INVARIANTS TypeOK GoneIsDropped PingHasPeer
PROPERTIES PresentIsKept
