SPECIFICATION Spec
CONSTANTS
    d1 = d1
    d2 = d2
    Drivers = {d1, d2}
    N = 2
    MaxConcurrency = 1
    MaxVersion = 40
    Worlds <- MCWorlds
SYMMETRY Symmetry
INVARIANTS
    DispatchJournalled
    InFlightBounded
    RowLoads
    StatusHonest
