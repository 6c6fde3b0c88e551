SPECIFICATION FairSpec
CONSTANTS
    p1 = p1
    p2 = p2
    Peer <- OnePeer
    TrackerPeer <- OnePeer
    NumPieces = 1
    BlockCount <- OneOfTwo
    Bitfield <- Seed0
    Breakable <- OnePeer
    Unsteady <- OnePeer
    Fickle <- OnePeer
    TickSize <- NoSize
    MaxQueue = 2
    MaxCorrupt = 0
    MaxAlerts = 1
PROPERTIES
    RequestsResolved
CHECK_DEADLOCK FALSE
