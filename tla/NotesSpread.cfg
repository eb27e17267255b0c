SPECIFICATION FairSpec
CONSTANTS
    a = a
    b = b
    c = c
    Device = {a, b}
    Greater <- MCGreater
    NoNote = NoNote
    MaxNotes = 3
    BatchSize = 1
    MaxCreated = 3
    MaxSaves = 2
    MaxReorders = 1
    MaxDeletes = 0
    Backups = TRUE
    MaxWire = 2
    MaxOpened = 0
    MaxFaults = 1
PROPERTY NotesSpread
CHECK_DEADLOCK FALSE
