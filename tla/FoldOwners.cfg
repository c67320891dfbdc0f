SPECIFICATION Spec
CONSTANTS
    Mints = {1}
    Rules = {1, 2}
    Manual = {9}
    Priority <- MCPriority
    Exclusive = {1, 2}
    FirstSlot = {2}
    ConcurrentCap <- MCConcurrentCap
    TotalCap <- MCTotalCap
    MaxPerCoin <- MCMaxPerCoin
    MaxEntryAttempts = 1
    MaxExitAttempts = 1
    Bag = 1
    PartialBps = {}
    ManualBps = {}
    ReloadStates = {"real", "absent"}
    MaxPositions = 2
    MaxIntents = 2
CHECK_DEADLOCK FALSE
INVARIANTS
    OwnersMatchArms
    OutstandingAwaited
    ExclusiveNeverShare
    WaitingArmsHaveRules
