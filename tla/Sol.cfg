CONSTANTS
    Positions = {p1, p2, p3}
    Size <- MCSize
    Balance0 = 7
    Floor = 1
    FeeReserve = 0
    Proceeds = {0, 2}
    MaxCommitted = 4
    Transfer = 3
    MaxEvents = 2
    Faults = {}
SPECIFICATION Spec
SYMMETRY MCSymmetry
INVARIANTS Solvent ExposureCapped 
CHECK_DEADLOCK FALSE
