SPECIFICATION RuntimeSpec
CONSTANTS
    Nobody = nobody
    r1 = r1
    r2 = r2
    r3 = r3
    r4 = r4
    t1 = t1
    t2 = t2
    t3 = t3
    Requests = {r1, r2, r3, r4}
    Tenants = {t1, t2, t3}
    MaxTrackedTenants = 2
    MaxGlobalInflight = 2
    MaxConcurrent = 1
    MaxQueue = 1
    q1 = q1
    q2 = q2
    q3 = q3
    QueueTenants = {q1, q2, q3}
    MaxPerTenant = 2
    MaxTenants = 2
    MaxCost = 3
    OpenThreshold = 5
    RecoveryThreshold = 3
    OpenInterval = 4
INVARIANTS
    TenantLimits
    PermitsConserved
    Fair
PROPERTIES
    RefusalJustified
    Hysteresis
    Served
    Recovers
