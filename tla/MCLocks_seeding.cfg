SPECIFICATION Spec
CONSTANTS
    p1 = p1
    p2 = p2
    Peer <- TwoPeers
    TrackerPeer <- OneTracked
    Unsteady <- JoiningPeer
    Pieces = 0
    Blocks = 1
    MailCapacity = 1
    WriterCapacity = 1
INVARIANTS
    NoCircularWait
