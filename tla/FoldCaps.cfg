SPECIFICATION Spec
CONSTANTS
    Mints = {1, 2}
    Rules = {1}
    Manual = {}
    Priority <- MCPriority
    Exclusive = {}
    FirstSlot = {}
    ConcurrentCap <- MCConcurrentCap
    TotalCap <- MCTotalCap
    MaxPerCoin <- MCMaxPerCoin
    MaxEntryAttempts = 2
    MaxExitAttempts = 1
    Bag = 1
    PartialBps = {}
    ManualBps = {}
    ReloadStates = {"real", "drain"}
    MaxPositions = 2
    MaxIntents = 2
CHECK_DEADLOCK FALSE
INVARIANTS
    OpenCountsHolders
    ConcurrencyCapped
    TotalNeverOvercounts
PROPERTIES
    DrainingRuleNeverBuys
    ImplementsLifecycle
