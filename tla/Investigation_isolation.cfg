SPECIFICATION Spec
CONSTANTS
    Rpcs = {r1, r2}
    t1 = t1
    t2 = t2
    Tenants = {t1, t2}
    Windows = {w1}
    Symptoms = {s1}
    Seed <- MCSeed
    GraphTTL = 2
    SimilarTTL = 2
    CallTimeout = 1
    MaxTime = 2
    NoValue = NoValue
SYMMETRY Symmetry
INVARIANTS
    TypeOK
    TenantIsolation
    CachedIncidentsAreStored
    CountersMatchAnswers
PROPERTIES
    CancelledSendsNothing
    ImplementsContract
CHECK_DEADLOCK FALSE
