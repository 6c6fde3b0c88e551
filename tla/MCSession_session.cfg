SPECIFICATION FairSpec
CONSTANTS
    p1 = p1
    p2 = p2
    Peer <- TwoPeers
    TrackerPeer <- OnePeer
    Requesting <- OnePeer
    Requested <- Ranges
    MAX_ALLOWED_BLOCK_SIZE = 2
    Breakable <- NoPeer
    TorrentFiles <- Torrents
    Announce <- Url
    MoreUrls <- Others
    Scheme <- Schemes
    Reader <- Readers
    FileLength <- Lengths
    PieceLength = 3
    NumPieces = 2
    BLOCK_SIZE = 2
    Width = 3
    Capacity = 2
    MaxLost = 1
    MaxRepeated = 1
    MaxCrashes = 1
INVARIANTS
    TypeOK
    ServedIsGood
    KeptIsOnItsWay
    EachPieceTold
PROPERTIES
    ArchiveSpec
    Answered
CHECK_DEADLOCK FALSE
