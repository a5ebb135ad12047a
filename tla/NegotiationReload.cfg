CONSTANTS
    a = a
    b = b
    Pages <- TwoPages
    Ids <- ThreeIds
    Faults <- OnlyReload
    MaxFaults = 1
    MaxConns = 4

SPECIFICATION Spec
CHECK_DEADLOCK FALSE
PROPERTIES ChannelComesBack
