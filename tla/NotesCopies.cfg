SPECIFICATION Spec
CONSTANTS
    a = a
    b = b
    c = c
    Device = {a, b}
    Greater <- MCGreater
    NoNote = NoNote
    MaxNotes = 3
    BatchSize = 1
    MaxCreated = 1
    MaxSaves = 3
    MaxReorders = 0
    MaxDeletes = 1
    Backups = TRUE
    MaxWire = 2
    MaxOpened = 0
    MaxFaults = 0
INVARIANT NothingLost
CHECK_DEADLOCK FALSE
