SPECIFICATION Spec
CONSTANTS
    None = None
    alice = alice
    k = k
    MaxSqliteInteger = 3
    Callers = {alice}
    Keys = {k}
    Instances = {i1}
    Handlers = {h1, h2}
    Snapshots = {s1}
    InstanceOf <- SameHost
    Submissions <- KeyReuse
    Bindings <- MCBindings
    Sessions <- MCSessions
    Owners <- MCOwners
    UpstreamIds <- MCUpstreamIds
    Verdicts <- MCVerdicts
    PublicIds <- MCPublicIds
    MaxPurgeRecords = 1
    MaxStoredTaskRoutes = 2
    MaxActiveTaskRoutesPerCaller = 2
    MaxCasAttempts = 2
    PurgeLimit = 1
    MaxTime = 1
    MaxSessions = 0
    MaxEpochs = 0
    MaxRoutes = 2
SYMMETRY Symmetry
INVARIANTS KeyBoundOnce
PROPERTIES RouteHistory
