SPECIFICATION BackupSpec
CONSTANTS
    a = a
    b = b
    t = t
    Main = Main
    None = None
    Device <- MCDevice
    Thread <- MCThread
    Owner <- MCOwner
    Msg <- ReplyMsg
    Sender <- ReplySender
    Conv <- ReplyConv
    MaxWire = 1
    MaxFaults = 0
PROPERTY BackupKeepsContract
PROPERTY RestoreKeepsDeletions
CONSTANT Exporting = {b}
CHECK_DEADLOCK FALSE
