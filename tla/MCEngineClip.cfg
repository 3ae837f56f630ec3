SPECIFICATION Spec
CONSTANTS
    NoVal = NoVal
    Copies <- MixedCopies
    Sends <- NoSends
    Clips <- PeerClips
    Large = {}
    Sensitive = {"t1"}
    Refused = {"f1"}
    E2E = TRUE
    Platforms = {TRUE, FALSE}
    MaxHolds = 1
    RingMax = 1
    MaxCopies = 2
    MaxClips = 1
    MaxEdits = 0
    MaxFaults = 1
INVARIANTS OneClipPerCopy NoEcho
CHECK_DEADLOCK FALSE
