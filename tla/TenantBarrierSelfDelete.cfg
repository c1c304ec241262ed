SPECIFICATION FairSpec
CONSTANTS
    n1 = n1
    n2 = n2
    runner = runner
    web = web
    tg1 = tg1
    max1 = max1
    max2 = max2
    del1 = del1
    del2 = del2
    res1 = res1
    Nobody = Nobody
    Tenants = {n1, n2}
    Loops = {runner, web}
    Turns = {tg1}
    Requests = {del2}
    TenantOf <- MCTenantOf
    LoopOf <- MCLoopOf
    SelfOf <- MCSelfOf
    Restores <- NoRestores
    MaxCrashes = 0
PROPERTY
    RequestsReturn
CHECK_DEADLOCK FALSE
