SPECIFICATION FairSpec
CONSTANTS
    Mints = {1}
    Rules = {1}
    Manual = {}
    Priority <- MCPriority
    Exclusive = {}
    FirstSlot = {}
    ConcurrentCap <- MCConcurrentCap
    TotalCap <- MCTotalCapThree
    MaxPerCoin <- MCMaxPerCoin
    MaxEntryAttempts = 2
    MaxExitAttempts = 1
    Bag = 2
    PartialBps = {1}
    ManualBps = {}
    ReloadStates = {"real"}
    MaxPositions = 3
    MaxIntents = 4
CHECK_DEADLOCK FALSE
INVARIANTS
    TypeOK
    ShareLeftWhileHolding
    
PROPERTY OrdersResolve
