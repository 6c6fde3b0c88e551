SPECIFICATION Spec
CONSTANTS
    p1 = p1
    p2 = p2
    Peer <- OnePeer
    TrackerPeer <- OneTracked
    Unsteady <- OnePeer
    Pieces = 2
    Blocks = 2
    MailCapacity = 2
    WriterCapacity = 1
INVARIANTS
    TypeOK
    NoBlockLost
    InOrder
    NoInnerCircle
CHECK_DEADLOCK FALSE
