SPECIFICATION FairSpec
CONSTANTS
    Devices = {d1}
    Conns = {c1, c2}
    Pools = {default}
    DefaultPool = default
    SendBuf = 2
    QueueDepth = 2
    MaxClips = 2
    MaxNamed = 1
    MaxFaults = 1
    NoConn = NoConn
    NoDev = NoDev
INVARIANTS TypeOK HandlerInv
PROPERTIES DeadConnsLeave RegisterCompletes
CHECK_DEADLOCK FALSE
