SPECIFICATION Spec
CONSTANTS
    Devices = {d1, d2}
    Blobs = {b1, b2}
    Gets = {}
    NoDev = NoDev
    StoreCap = 1
    MaxRoutes = 1
    MaxUploads = 2
    MaxFaults = 0
    Reroute = FALSE
    Collect = TRUE
SYMMETRY Symmetry
PROPERTY OldPinsKept
CHECK_DEADLOCK FALSE
