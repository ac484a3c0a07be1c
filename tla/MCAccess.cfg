SPECIFICATION AccessSpec
CONSTANTS
    Nobody = nobody
    alice = alice
    bob = bob
    tool = tool
    schema1 = schema1
    schema2 = schema2
    read = read
    write = write
    lease1 = lease1
    none = none
    Callers = {alice, bob}
    Aliases = {tool}
    Schemas = {schema1, schema2}
    Effects = {read, write}
    ReadOnly = read
    Strongest = write
    Ids = {lease1}
    Durable = TRUE
    Ttl = 1
    MaxTime = 1
    Nothing = none
    e1 = e1
    e2 = e2
    e3 = e3
    session = session
    Elicitations = {e1, e2, e3}
    Connections = {session}
    MaxUnread = 1
    k1 = k1
    k2 = k2
    r1 = r1
    r2 = r2
    Keys = {k1, k2}
    Bearers = {r1, r2}
    FirstKeys = {k1}
    CacheTtl = 2
    Expiries = {2}
    Skew = 0
    FetchTimeout = 1
    KeyTime = 4
    MaxRotations = 1
    a = a
    b = b
    submit = submit
    note = note
    hint = hint
    Lists <- MCLists
    Catalogues <- MCCatalogues
    TaskTools = {submit}
    PageSize = 1
    Rounds <- MCRounds
    MaxEpochs = 2
    MaxIssued = 5
    p = p
    q = q
    Missing = missing
    EntryIds = {a, b}
    Processes = {p, q}
    Ops = {"init", "force", "add", "remove"}
    Authored <- MCAuthored
    MaxRoutes = 1
    MaxCommands = 3
    unpinned = unpinned
    Sources = {1, 2}
    Listings <- MCListings
    Names = {"x", "y"}
    Unsupported <- MCUnsupported
    Alias <- MCAlias
    Cursors = {"c"}
    MaxPages = 2
    MaxItems = 3
    Unpinned = unpinned
SYMMETRY Symmetry
CHECK_DEADLOCK FALSE
INVARIANTS
    WithinAuthority
    AcceptedAsAnswered
    PublishedAdmitted
    TokensKept
    EditsKept
    ServedAsReviewed
PROPERTY
    KeysTimely
