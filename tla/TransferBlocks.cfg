SPECIFICATION Spec
CONSTANTS
    NoHash = NoHash
    TransferId = {1, 2}
    Version = {1, 2}
    Size = 3
    Window = 2
    AckEvery = 2
    Overlap = FALSE
    Pausable = {}
    DiskFails = TRUE
    MaxFaults = 1
    Canceling <- ReceiverCancel
INVARIANT TypeOK DoneMeansSaved SavedIsRead
PROPERTY DoneIsFinal CancelIsFinal KeepsContract
CHECK_DEADLOCK FALSE
