CONSTANTS
    pa = pa
    pb = pb
    f1 = f1
    f2 = f2
    f3 = f3
    NoFile = NoFile
    Peers <- TwoPeers
    Owner <- Owners
    FileIds <- TwoFiles
    Chunks <- OneChunk
    MaxDisturbances = 1
    Faults = {"prune", "readfail", "latelow"}

SPECIFICATION MCSafety
CHECK_DEADLOCK FALSE
INVARIANTS SlotNamesLiveLoop RetryBacked
