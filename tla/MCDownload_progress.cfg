SPECIFICATION FairSpec
CONSTANTS
    p1 = p1
    p2 = p2
    Peer <- TwoPeers
    TrackerPeer <- OnePeer
    NumPieces = 1
    BlockCount <- OneOfTwo
    Bitfield <- Seed0
    Breakable <- NoPeer
    Unsteady <- NoPeer
    Fickle <- OtherPeer
    TickSize <- NoSize
    MaxQueue = 2
    MaxCorrupt = 0
    MaxAlerts = 1
INVARIANTS
    BlockInOnePlace
PROPERTIES
    RequestsResolved
    NoStall
CHECK_DEADLOCK FALSE
