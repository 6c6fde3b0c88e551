SPECIFICATION FairSpec
CONSTANTS
    Width = 2
    BLOCK_SIZE = 1
    ROLLING_AVERAGE_SIZE = 2
    SlowStartMargin = 0
    MAX_ALLOWED_BLOCK_SIZE = 256
    Message <- Messages
    Wanted <- WantedBlocks
    MaxSent = 3
    MaxLost = 1
    MaxTicks = 3
INVARIANTS
    TypeOK
    InOrder
    NothingMissed
    WindowIsRecent
PROPERTIES
    AllHeard
CHECK_DEADLOCK FALSE
