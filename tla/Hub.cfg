CONSTANTS
    c1 = c1
    c2 = c2
    c3 = c3
    r = r
    Clients <- ThreeClients
    Rooms <- OneRoom
    Ids <- ThreeClients
    RoomOf <- InTheRoom
    IdOf <- Reconnect
    PostLimit <- PairTalks
    SendCap = 2
    BroadcastCap = 1

SPECIFICATION MCSpec
CHECK_DEADLOCK FALSE
INVARIANTS TypeOK MembersAreLive RoomsArePairs GreetedFirst ViewIsRoom SignalsInOrder
PROPERTIES LostIsReleased
