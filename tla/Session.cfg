CONSTANTS
    r1 = r1
    r2 = r2
    p1 = p1
    p2 = p2
    None = None
    Rooms <- TwoRooms
    Pws <- TwoPasswords
    Master = p1
    Brokers = 2
    MaxVisits = 2
    MaxFailures = 2

SPECIFICATION MCSpec
CHECK_DEADLOCK FALSE
INVARIANTS TypeOK OneClient NothingLeftBehind RoomIsServed RoomIsSaved
PROPERTIES SubscribedInTheEnd
