CONSTANTS
    a = a
    b = b
    Pages <- TwoPages
    Ids <- ThreeIds
    Faults <- FaultKinds
    MaxFaults = 1
    MaxConns = 4

SPECIFICATION Spec
CHECK_DEADLOCK FALSE
INVARIANTS TypeOK NoGlare NoCandidateStranded GlobalsAgree
PROPERTIES NoConnectionLeaks FirstContact
