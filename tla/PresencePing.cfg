CONSTANTS
    front = front
    back = back
    Remotes <- TwoRemotes
    Throttled <- OneThrottled
    AnnounceEvery = 2
    PruneEvery = 2
    PruneAfter = 10
    PingEvery = 4
    MaxDelay = 1
    MaxEvents = 0

SPECIFICATION Spec
CHECK_DEADLOCK FALSE
PROPERTIES PeersArePinged
