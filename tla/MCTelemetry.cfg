SPECIFICATION Spec
CONSTANTS
    Clients = {c1, c2}
    Settings = {"telemetry", "privacy"}
    MaxStarts = 2
    MaxToken = 2
    NoCfg = NoCfg
    Mixed = Mixed
    Cap = 2
    Batch = 2
    MaxLines = 4
SYMMETRY Symmetry
INVARIANTS TypeOK SettingsKept NothingLost
PROPERTY ImplementsOutbox
CHECK_DEADLOCK FALSE
