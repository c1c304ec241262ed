SPECIFICATION Spec
CONSTANTS
    x = x
    y = y
    None = None
    Targets = {x, y}
    Batches <- MCChain
    Durable = FALSE
    Unified = FALSE
    DURABLE_CRASH_LIMIT = 2
    MaxMessages = 1
    MaxCalls = 2
    MaxWrites = 2
INVARIANT
    OnlyWhenGranted
CHECK_DEADLOCK FALSE
