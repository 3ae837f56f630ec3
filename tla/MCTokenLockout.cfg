SPECIFICATION Spec
CONSTANTS
    Conns = {c1, c2}
    MaxToken = 3
    MaxFaults = 0
    Overlap = TRUE
SYMMETRY Symmetry
INVARIANTS NeverLockedOut
CHECK_DEADLOCK FALSE
