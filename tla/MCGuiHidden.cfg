SPECIFICATION Spec
CONSTANTS
    Cap = 1
    PipeMax = 3
    Rosters = {r0, r1}
    NoRoster = r0
    MaxActs = 2
    MaxEvents = 0
INVARIANT WayBack
CHECK_DEADLOCK FALSE
