SPECIFICATION FairSpec
CONSTANTS
    Hosts = {"agent", "tauri"}
    Clients = {ui, worker}
    Pairers = {worker}
    MaxStarts = 2
    MaxPanics = 1
INVARIANTS TypeOK OneEngine
PROPERTIES OrphansGone PanicRecovers StatusTruthful
CHECK_DEADLOCK FALSE
