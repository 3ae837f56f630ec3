SPECIFICATION Spec
CONSTANTS
    Devices = {d1}
    Conns = {c1, c2, c3}
    Pools = {default}
    DefaultPool = default
    SendBuf = 2
    QueueDepth = 2
    MaxClips = 3
    MaxNamed = 1
    MaxFaults = 0
    NoConn = NoConn
    NoDev = NoDev
SYMMETRY Symmetry
INVARIANT ReplayFirst
PROPERTY NoSilentLoss
CHECK_DEADLOCK FALSE
