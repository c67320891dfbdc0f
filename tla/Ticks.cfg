CONSTANTS
    Mints = {1, 2}
    Rules = {1, 2, 3}
    Manual = {9}
    ManualMints = {2}
    Identity <- MCIdentity
    Matches <- MCMatches
    FirstSlot = {3}
    Tables <- MCTables
    ManualLine = {"high"}
    Threshold <- MCThreshold
    Quiet = 2
    GuardWindow = 3
    PruneEvery = 1
    MaxMintsPerIdentity = 2
    Policies = {FALSE}
    Prints <- MCPrints
    MaxTime = 4
    MaxEvents = 3
SPECIFICATION Spec
 
PROPERTY CopycatNeverEntered
CHECK_DEADLOCK FALSE
