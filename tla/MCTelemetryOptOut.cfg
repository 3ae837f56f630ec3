SPECIFICATION Spec
CONSTANTS
    Clients = {c1}
    Settings = {"telemetry"}
    MaxStarts = 1
    MaxToken = 2
    NoCfg = NoCfg
    Mixed = Mixed
    Cap = 2
    Batch = 1
    MaxLines = 5
PROPERTY OptOutHonoured
CHECK_DEADLOCK FALSE
