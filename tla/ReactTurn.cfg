SPECIFICATION Spec
CONSTANTS
    x = x
    y = y
    None = None
    Targets = {x, y}
    Batches <- MCBatches
    Durable = TRUE
    Unified = TRUE
    DURABLE_CRASH_LIMIT = 2
    MaxMessages = 2
    MaxCalls = 3
    MaxWrites = 2
CONSTRAINT MCDistinct
INVARIANTS
    AppliedOnce
    OnlyWhenGranted
PROPERTIES
    LeftIsLeft
    ImplementsConfirmation
CHECK_DEADLOCK FALSE
