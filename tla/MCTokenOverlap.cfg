SPECIFICATION Spec
CONSTANTS
    Conns = {c1, c2, c3}
    MaxToken = 4
    MaxFaults = 1
    Overlap = TRUE
SYMMETRY Symmetry
INVARIANTS TypeOK IndexExact NoRevival
CHECK_DEADLOCK FALSE
