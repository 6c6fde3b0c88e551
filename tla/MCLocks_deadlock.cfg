SPECIFICATION FairSpec
CONSTANTS
    p1 = p1
    p2 = p2
    Peer <- OnePeer
    TrackerPeer <- OneTracked
    Unsteady <- NoPeer
    Pieces = 1
    Blocks = 1
    MailCapacity = 3
    WriterCapacity = 2
PROPERTIES
    HandlerReturns
CHECK_DEADLOCK FALSE
