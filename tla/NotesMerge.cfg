SPECIFICATION Spec
CONSTANTS
    a = a
    b = b
    c = c
    Device = {a, b}
    Greater <- MCGreater
    NoNote = NoNote
    MaxNotes = 3
    BatchSize = 1
    MaxCreated = 1
    MaxSaves = 3
    MaxReorders = 1
    MaxDeletes = 1
    Backups = TRUE
    MaxWire = 1
    MaxOpened = 1
    MaxFaults = 0
INVARIANT TypeOK OriginalsKept
PROPERTY DeletedStaysDeleted VersionsGrow
CHECK_DEADLOCK FALSE
