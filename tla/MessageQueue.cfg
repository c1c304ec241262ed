SPECIFICATION MCFairSpec
CONSTANTS
    j1 = j1
    j2 = j2
    t1 = t1
    n1 = n1
    Jobs = {j1, j2}
    Threads = {t1}
    ThreadOf <- MCThreadOf
    Tenants = {n1}
    TenantOf <- MCTenantOf
    Enqueuers = {e1}
    Dispatchers = {d1, d2}
    MAX_ATTEMPTS = 2
    NoJob = NoJob
    MaxFaults = 2
INVARIANTS
    TokensAreUnique
    OneActivePerThread
PROPERTIES
    EveryJobSettles
    SettledForGood
    ClaimsInOrder
    ImplementsLifecycle
