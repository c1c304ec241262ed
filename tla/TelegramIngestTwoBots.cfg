SPECIFICATION MCSpec
CONSTANTS
    Bots = {a, b}
    LastId = 0
    Ids <- MCIds
    QueueModes = {TRUE}
    MAX_ATTEMPTS = 2
    MaxFaults = 0
    Runner = Runner
    None = None
INVARIANT
    NoneStranded
CHECK_DEADLOCK FALSE
