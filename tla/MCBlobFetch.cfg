SPECIFICATION FairSpec
CONSTANTS
    Devices = {d1, d2}
    Blobs = {b1}
    Gets = {g1}
    NoDev = NoDev
    StoreCap = 0
    MaxRoutes = 2
    MaxUploads = 1
    MaxFaults = 1
    Reroute = TRUE
    Collect = FALSE
INVARIANTS TypeOK NoLostWakeup
PROPERTIES RecipientServed GetsFinish
CHECK_DEADLOCK FALSE
