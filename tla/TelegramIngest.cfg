SPECIFICATION MCFairSpec
CONSTANTS
    Bots = {a}
    LastId = 1
    Ids <- MCIds
    QueueModes = {TRUE, FALSE}
    MAX_ATTEMPTS = 2
    MaxFaults = 2
    Runner = Runner
    None = None
INVARIANTS
    ConfirmedIsDurable
    AnsweredOnce
    OneRoute
PROPERTIES
    TurnsInOrder
    EveryUpdateIngested
    EveryJobSettles
CHECK_DEADLOCK FALSE
