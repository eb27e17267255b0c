SPECIFICATION Spec
CONSTANTS
    a = a
    b = b
    t = t
    Main = Main
    None = None
    Device <- MCDevice
    Thread <- MainThread
    Owner <- MainOwner
    Msg <- MainMsg
    Sender <- MainSender
    Conv <- MainConv
    MaxWire = 1
    MaxFaults = 2
PROPERTY NoResurrection
PROPERTY KeepsContract
CHECK_DEADLOCK FALSE
