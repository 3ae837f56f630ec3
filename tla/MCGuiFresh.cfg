SPECIFICATION Spec
CONSTANTS
    Cap = 1
    PipeMax = 3
    Rosters = {r0, r1}
    NoRoster = r0
    MaxActs = 1
    MaxEvents = 1
INVARIANT MirrorFresh
CHECK_DEADLOCK FALSE
