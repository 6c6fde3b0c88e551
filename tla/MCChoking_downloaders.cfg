SPECIFICATION Spec
CONSTANTS
    p1 = p1
    p2 = p2
    p3 = p3
    Peer <- ThreePeers
    TrackerPeer <- ThreePeers
    Unsteady <- NoPeer
    MaxDownloaders = 1
    MailCapacity = 1
    WriterCapacity = 1
INVARIANTS
    DownloadersBounded
