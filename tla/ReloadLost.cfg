SPECIFICATION FairSpec
CONSTANTS
    Handlers = {h1, h2}
    ReloadAttempts = 2
    ChannelCap = 3
    MaxMutations = 2
    MaxCommands = 0
    MaxFailures = 0
CHECK_DEADLOCK FALSE
PROPERTY EditsReachEngine
