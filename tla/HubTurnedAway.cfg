CONSTANTS
    c1 = c1
    c2 = c2
    c3 = c3
    r = r
    Clients <- ThreeClients
    Rooms <- OneRoom
    Ids <- ThreeClients
    RoomOf <- InTheRoom
    IdOf <- OwnIds
    PostLimit <- OneFromLast
    SendCap = 3
    BroadcastCap = 1

SPECIFICATION FreeSafety
CHECK_DEADLOCK FALSE
PROPERTIES SignalsComeFromThePeer
