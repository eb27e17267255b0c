SPECIFICATION Spec
CONSTANTS
    Device = {d, e}
    Fingerprint = {f, g}
    Name = {n, m}
    Ip = {i}
    None = None
    Handshake = {h, k}
    MaxFails = 1
    MaxRestarts = 1
INVARIANT TypeOK RevocationHolds SettingAgrees
PROPERTY PinKept
SYMMETRY Symmetry
CHECK_DEADLOCK FALSE
