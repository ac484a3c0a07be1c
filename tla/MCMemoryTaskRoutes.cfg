SPECIFICATION Spec
CONSTANTS
    None = None
    MaxSqliteInteger = 2
    Callers = {alice, bob}
    Keys = {k1, k2}
    Bindings = {b1}
    Sessions = {s}
    Owners = {o}
    UpstreamIds = {u}
    Verdicts = {done}
    PublicIds = {1, 2, 3}
    MaxPurgeRecords = 1
    MaxStoredTaskRoutes = 2
    MaxActiveTaskRoutesPerCaller = 1
SYMMETRY Symmetry
INVARIANT IndexesAgree
PROPERTY RefinesStore
CHECK_DEADLOCK FALSE
