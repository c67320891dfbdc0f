SPECIFICATION Spec
CONSTANTS
    Handlers = {h1, h2}
    ReloadAttempts = 2
    ChannelCap = 3
    MaxMutations = 3
    MaxCommands = 1
    MaxFailures = 2
CHECK_DEADLOCK FALSE
SYMMETRY HandlerSymmetry
INVARIANTS
    TypeOK
    OneTask
    LeavesFresh
