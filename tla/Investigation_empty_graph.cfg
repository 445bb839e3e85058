SPECIFICATION Spec
CONSTANTS
    Rpcs = {r1, r2}
    t1 = t1
    t2 = t2
    Tenants = {t1}
    Windows = {w1}
    Symptoms = {s1}
    Seed = {}
    GraphTTL = 2
    SimilarTTL = 1
    CallTimeout = 1
    MaxTime = 2
    NoValue = NoValue
SYMMETRY Symmetry
INVARIANTS
    EmptyGraphIsAnError
CHECK_DEADLOCK FALSE
