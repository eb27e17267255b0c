SPECIFICATION FairSpec
CONSTANTS
    a = a
    b = b
    Device <- Two
    MaxConn = 2
    MaxJob = 1
    From <- EachWay
    Replies = 2
    Capacity = 1
    MaxFaults = 1
INVARIANT TypeOK NoOrphan OneMoreFrame LossIsNotified
PROPERTY HandlersReturn SettledSessionsAgree
CHECK_DEADLOCK FALSE
