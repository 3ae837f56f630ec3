SPECIFICATION Spec
CONSTANTS
    Devices = {d1, d2}
    Blobs = {b1}
    Gets = {g1}
    NoDev = NoDev
    StoreCap = 0
    MaxRoutes = 1
    MaxUploads = 1
    MaxFaults = 0
    Reroute = FALSE
    Collect = TRUE
SYMMETRY Symmetry
PROPERTY NeverRefused
CHECK_DEADLOCK FALSE
