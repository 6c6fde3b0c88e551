SPECIFICATION FairSpec
CONSTANTS
    p1 = p1
    p2 = p2
    Peer <- OnePeer
    TrackerPeer <- OnePeer
    NumPieces = 2
    BlockCount <- TwoOfOne
    Bitfield <- Seed01
    Breakable <- NoPeer
    Unsteady <- OnePeer
    Fickle <- OnePeer
    TickSize <- NoSize
    MaxQueue = 2
    MaxCorrupt = 0
    MaxAlerts = 1
PROPERTIES
    HandlerReturns
CHECK_DEADLOCK FALSE
