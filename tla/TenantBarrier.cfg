SPECIFICATION FairSpec
CONSTANTS
    n1 = n1
    n2 = n2
    runner = runner
    web = web
    tg1 = tg1
    max1 = max1
    max2 = max2
    del1 = del1
    del2 = del2
    res1 = res1
    Nobody = Nobody
    Tenants = {n1, n2}
    Loops = {runner, web}
    Turns = {tg1, max1, max2}
    Requests = {del1, del2, res1}
    TenantOf <- MCTenantOf
    LoopOf <- MCLoopOf
    SelfOf <- MCSelfOf
    Restores <- OneRestore
    MaxCrashes = 1
INVARIANTS
    HoldersHold
    NothingPendingOnceDeleted
PROPERTIES
    RequestsServed
    TurnsEnd
    ImplementsSafeDeletion
CHECK_DEADLOCK FALSE
