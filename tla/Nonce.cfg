CONSTANTS
    Nonces = {1}
    MaxTrades = 3
    RefreshAttempts = 1
    IndexCap = 1
    MaxBurns = 1
    Faults = {}
SPECIFICATION FairSpec
INVARIANTS DeadIsProof NoSharedHash
PROPERTIES CacheNeverRewinds SlotsReturn 
CHECK_DEADLOCK FALSE
