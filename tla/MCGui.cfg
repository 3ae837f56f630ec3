SPECIFICATION FairSpec
CONSTANTS
    Cap = 1
    PipeMax = 3
    Rosters = {r0, r1}
    NoRoster = r0
    MaxActs = 2
    MaxEvents = 2
INVARIANT MirrorConverges
PROPERTIES AgentBack WorkEnds QuitIsFinal
CHECK_DEADLOCK FALSE
