SPECIFICATION FairSpec
CONSTANTS
    p1 = p1
    p2 = p2
    p3 = p3
    Peer <- TwoPeers
    TrackerPeer <- OnePeer
    Unsteady <- JoiningPeer
    MaxDownloaders = 1
    MailCapacity = 1
    WriterCapacity = 1
INVARIANTS
    TypeOK
    ToldAgrees
PROPERTIES
    BlocksOnlyWhenUnchoked
    Served
