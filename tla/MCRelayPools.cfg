SPECIFICATION Spec
CONSTANTS
    Devices = {d1, d2}
    Conns = {c1, c2}
    Pools = {default, work}
    DefaultPool = default
    SendBuf = 2
    QueueDepth = 2
    MaxClips = 1
    MaxNamed = 2
    MaxFaults = 1
    NoConn = NoConn
    NoDev = NoDev
SYMMETRY Symmetry
INVARIANTS RegistryInv AtMostOnce
CHECK_DEADLOCK FALSE
