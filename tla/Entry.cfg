CONSTANTS
    MaxEntryAttempts = 3
    MaxBuys = 3
    MaxCrashes = 1
    MaxInbox = 2
    Faults = {"untracked"}
SPECIFICATION FairSpec
INVARIANTS TypeOK NoStrandedBuy OneLiveBuy 
CHECK_DEADLOCK FALSE
PROPERTY EntryAnswered
