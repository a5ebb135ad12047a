CONSTANTS
    pa = pa
    pb = pb
    f1 = f1
    f2 = f2
    f3 = f3
    NoFile = NoFile
    Peers <- TwoPeers
    Owner <- Owners
    FileIds <- OneFile
    Chunks <- OneChunk
    MaxDisturbances = 1
    Faults = {"prune", "latelow"}

SPECIFICATION MCSpec
CHECK_DEADLOCK FALSE
PROPERTIES DrainEnds
