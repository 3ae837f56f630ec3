SPECIFICATION Spec
CONSTANTS
    Devices = {d1}
    Conns = {c1}
    Pools = {default}
    DefaultPool = default
    SendBuf = 2
    QueueDepth = 1
    MaxClips = 1
    MaxNamed = 1
    MaxFaults = 1
    NoConn = NoConn
    NoDev = NoDev
INVARIANT DeletedDeviceCutOff
CHECK_DEADLOCK FALSE
