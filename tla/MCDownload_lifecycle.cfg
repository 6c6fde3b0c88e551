SPECIFICATION Spec
CONSTANTS
    p1 = p1
    p2 = p2
    Peer <- OnePeer
    TrackerPeer <- NoPeer
    NumPieces = 2
    BlockCount <- TwoThenOne
    Bitfield <- Seed01
    Breakable <- OnePeer
    Unsteady <- OnePeer
    Fickle <- OnePeer
    TickSize <- OneSize
    MaxQueue = 2
    MaxCorrupt = 1
    MaxAlerts = 1
INVARIANTS
    TypeOK
    QueueEmptyWhenComplete
    CurrentIsFirstMissing
    UntimedOnlyWithoutWriter
    Inv
PROPERTIES
    LedgerSpec
CHECK_DEADLOCK FALSE
