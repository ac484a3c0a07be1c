SPECIFICATION PlanningSpec
CONSTANTS
    p1 = p1
    p2 = p2
    p3 = p3
    Principals = {p1, p2, p3}
    Permissions = {"invoke"}
    Budgets = {"money", "retries"}
    Journals = {"budget_debits", "retry_attempts", "causal_observations"}
    Digests = {1}
    Classes = {1, 2}
    Bounds = {1, 2}
    Looped = {2}
    Contexts <- MCContexts
    MaxCost = 1
    MaxEntries = 2
    RouteMetrics = {"latency"}
    RouteLimit = 1
    Loss = "semantic_loss"
    Pool <- MCPool
    WeightPool <- MCWeights
    Edits <- MCEdits
    MaxCandidates = 2
    ModelMetrics = {"cost", "exposure"}
    ModelLimit = 5
    Aliases = {1, 2}
    Catalogs <- MCCatalogs
    ModelBudgets <- MCBudgets
    AnyModel = 0
    Natives = {4, 5}
    MaxTokens = 2
SYMMETRY Symmetry
CHECK_DEADLOCK FALSE
INVARIANTS
    NothingGained
    Delegated
    PlanAndProofAgree
    RoutedToBest
