SPECIFICATION Spec
CONSTANTS
    a = a
    b = b
    Device <- Alone
    Starts <- Twice
    NoAddr = NoAddr
    Timeout = 2
    MaxDelay = 1
    MaxSeq = 2
INVARIANT OfflineIsSilent
CHECK_DEADLOCK FALSE
