SPECIFICATION FairSpec
CONSTANTS
    c1 = c1
    c2 = c2
    c3 = c3
    mimo = mimo
    Calls = {c1, c2, c3}
    Providers = {mimo}
    Route <- MCRoute
    Async = {c1, c2}
    Streaming = {c1}
    MAX_CONCURRENT = 2
    OPEN_AFTER = 2
    BUFFER = 1
    MaxChunks = 2
    NoCall = NoCall
CHECK_DEADLOCK FALSE
INVARIANTS
    ThreadsBounded
    ProbeIsOwned
PROPERTIES
    LateOutcomesIgnored
    EveryCallReturns
    PermitsComeBack
    ImplementsBreaker
