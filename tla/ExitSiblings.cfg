SPECIFICATION Spec
CONSTANTS
    p1 = p1
    p2 = p2
    Positions = {p1, p2}
    MaxExitAttempts = 2
    SellAttempts = 1
    RedriveCap = 1
    MaxSells = 2
    MaxCrashes = 0
    MaxManual = 0
    Faults = {}
SYMMETRY PositionSymmetry
INVARIANTS
    OneLiveSell
    
CHECK_DEADLOCK FALSE
