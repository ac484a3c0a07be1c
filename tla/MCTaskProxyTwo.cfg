SPECIFICATION Spec
CONSTANTS
    None = None
    alice = alice
    k = k
    MaxSqliteInteger = 5
    Callers = {alice}
    Keys = {k}
    Instances = {i1, i2}
    Handlers = {i1, i2}
    Snapshots = {s1, s2}
    InstanceOf <- OwnHost
    Submissions <- EarlyCutoff
    Bindings <- MCBindings
    Sessions <- MCSessions
    Owners <- MCOwners
    UpstreamIds <- MCUpstreamIds
    Verdicts <- MCVerdicts
    PublicIds <- MCPublicIds
    MaxPurgeRecords = 1
    MaxStoredTaskRoutes = 2
    MaxActiveTaskRoutesPerCaller = 2
    MaxCasAttempts = 2
    PurgeLimit = 1
    MaxTime = 2
    MaxSessions = 0
    MaxEpochs = 0
    MaxRoutes = 2
SYMMETRY Symmetry
INVARIANTS AtMostOneDispatch
