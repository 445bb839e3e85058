SPECIFICATION Spec
CONSTANTS
    Callers = {c1, c2}
    t1 = t1
    t2 = t2
    Tenants = {t1, t2}
    Services = {"a", "b"}
    Selectors = {"x", "y"}
    Records <- MCRecords
    Asks <- MCAsks
    TopSelectors = 1
    PatternTTL = 1
    CallTimeout = 1
    MaxTime = 2
    MaxRounds = 2
    NoValue = NoValue
SYMMETRY Symmetry
INVARIANTS
    PatternsStoredInOrder
    PrevalenceIsShare
    SelectorsAreMostFrequent
    CachedPatternsAreStored
    CachedPatternsAreFresh
CHECK_DEADLOCK FALSE
