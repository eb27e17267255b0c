SPECIFICATION FairSpec
CONSTANTS
    NoHash = NoHash
    TransferId = {1, 2}
    Version = {1}
    Size = 8
    Window = 3
    AckEvery = 2
    Overlap = FALSE
    Pausable = {1, 2}
    DiskFails = FALSE
    MaxFaults = 1
    Canceling <- SenderCancel
INVARIANT WindowKept
PROPERTY AcceptedArrives
CHECK_DEADLOCK FALSE
