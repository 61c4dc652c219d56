SPECIFICATION Spec
CONSTANTS
    Pcs = {p1, p2}
    MaxCmds = 4
    MaxFaults = 2
SYMMETRY Symmetry
INVARIANTS ReplayRefused KeyAccounted OwnerKeeps
CHECK_DEADLOCK FALSE
