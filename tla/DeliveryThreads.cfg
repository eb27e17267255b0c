SPECIFICATION FairSpec
CONSTANTS
    a = a
    b = b
    t = t
    Main = Main
    None = None
    Device <- MCDevice
    Thread <- ReplyThread
    Owner <- ReplyOwner
    Msg <- ReplyMsg
    Sender <- ReplySender
    Conv <- ReplyConv
    MaxWire = 1
    MaxFaults = 1
INVARIANT TypeOK
INVARIANT DeliveredMeansSaved
INVARIANT SettledThreadsAgree
PROPERTY TombstonesStay
PROPERTY QueueDrains
PROPERTY DeletionPropagates
PROPERTY AnnouncementsEnd
CHECK_DEADLOCK FALSE
