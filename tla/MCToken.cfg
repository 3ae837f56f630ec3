SPECIFICATION Spec
CONSTANTS
    Conns = {c1, c2, c3, c4, c5}
    MaxToken = 5
    MaxFaults = 2
    Overlap = FALSE
SYMMETRY Symmetry
INVARIANT NeverLockedOut
PROPERTY RestartSafe
CHECK_DEADLOCK FALSE
