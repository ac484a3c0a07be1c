CONSTANTS
    p = p
    q = q
    closer = closer
    Callers = {p, q}
    Shutdown = closer
    MaxRestarts = 1
    MaxRequests = 1
CHECK_DEADLOCK FALSE
SPECIFICATION SourceSpec
INVARIANTS
    SentWhereBound
    RestartsBounded
PROPERTY
    RequestsEnd
