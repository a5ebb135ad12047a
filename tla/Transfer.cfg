CONSTANTS
    pa = pa
    pb = pb
    f1 = f1
    f2 = f2
    f3 = f3
    NoFile = NoFile
    Peers <- TwoPeers
    Owner <- Owners
    FileIds <- ThreeFiles
    Chunks <- ThreeOneOne
    MaxDisturbances = 2
    Faults = {"loss", "linkdown", "prune", "leave", "reload", "readfail", "latelow"}

SPECIFICATION MCPlans
CHECK_DEADLOCK FALSE
INVARIANTS TypeOK WholeFile CancelledReleased IInv
PROPERTIES CancelStopsLoop DeliverySpec LoopEnds CalmDelivery
