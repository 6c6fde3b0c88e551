SPECIFICATION FairSpec
CONSTANTS
    p1 = p1
    p2 = p2
    Peer <- TwoPeers
    TrackerPeer <- TwoPeers
    NumPieces = 1
    BlockCount <- OneOfOne
    Bitfield <- Seed0
    Breakable <- NoPeer
    Unsteady <- TwoPeers
    Fickle <- TwoPeers
    TickSize <- NoSize
    MaxQueue = 2
    MaxCorrupt = 1
    MaxAlerts = 1
PROPERTIES
    NoStall
CHECK_DEADLOCK FALSE
