SPECIFICATION FairSpec
CONSTANTS
    Rpcs = {r1, r2}
    t1 = t1
    t2 = t2
    Tenants = {t1}
    Windows = {w1}
    Symptoms = {s1}
    Seed = {}
    GraphTTL = 1
    SimilarTTL = 0
    CallTimeout = 1
    MaxTime = 3
    NoValue = NoValue
INVARIANTS
    GraphIsFresh
PROPERTIES
    EveryRequestAnswered
CHECK_DEADLOCK FALSE
