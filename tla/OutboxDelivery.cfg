SPECIFICATION MCFairSpec
CONSTANTS
    Rows = {1, 2}
    Workers = {w1, w2}
    Limit = 2
    AckEdit = {2}
    Hooked = {1}
    NoRow = NoRow
    MaxFaults = 2
INVARIANTS
    ExclusiveDelivery
    DuplicatesExplained
    SentIsTrue
PROPERTIES
    EveryRowSettles
    ImplementsDelivery
CHECK_DEADLOCK FALSE
