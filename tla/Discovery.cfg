SPECIFICATION FairSpec
CONSTANTS
    a = a
    b = b
    Device <- Neighbours
    Starts <- TwiceOnce
    NoAddr = NoAddr
    Timeout = 1
    MaxDelay = 1
    MaxSeq = 2
INVARIANT TypeOK OnlineIsBacked SilentIsOffline EventsTell
PROPERTY GoneIsForgotten
CHECK_DEADLOCK FALSE
