SPECIFICATION FairSpec
CONSTANTS
    p1 = p1
    p2 = p2
    Positions = {p1}
    MaxExitAttempts = 2
    SellAttempts = 2
    RedriveCap = 2
    MaxSells = 2
    MaxCrashes = 1
    MaxManual = 1
    Faults = {}
INVARIANTS
    TypeOK
    
    
CHECK_DEADLOCK FALSE
PROPERTY ExitAnswered
