CONSTANTS
    pa = pa
    pb = pb
    f1 = f1
    f2 = f2
    f3 = f3
    NoFile = NoFile
    Peers <- TwoPeers
    Owner <- Owners
    FileIds <- TwoFiles
    Chunks <- OneChunk
    MaxDisturbances = 0
    Faults = {}

SPECIFICATION MCSafety
CHECK_DEADLOCK FALSE
INVARIANTS RefreshGuard
