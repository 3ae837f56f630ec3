SPECIFICATION FairSpec
CONSTANTS
    NoVal = NoVal
    Copies <- BlobCopies
    Sends <- FileSends
    Clips <- NoClips
    Large = {"big1", "big2"}
    Sensitive = {}
    Refused = {}
    E2E = TRUE
    Platforms = {TRUE}
    MaxHolds = 1
    RingMax = 3
    MaxCopies = 2
    MaxClips = 0
    MaxEdits = 1
    MaxFaults = 2
INVARIANTS TypeOK UploadOnce HoldsAgree HoldKept
PROPERTY UploadsAdvertised
CHECK_DEADLOCK FALSE
