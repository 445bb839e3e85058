SPECIFICATION FairSpec
CONSTANTS
    Callers = {c1, c2}
    t1 = t1
    t2 = t2
    Tenants = {t1, t2}
    Services = {"a", "b"}
    Results <- MCResults
    Early <- MCEarly
    Queries <- MCQueries
    DefaultPage = 2
    MaxPage = 3
    TicksPerSecond = 2
    MaxTries = 2
    NoValue = NoValue
INVARIANTS
    PagingMissesNothing
    ListedAsAsked
    PagesContinue
    FeedbackAccounted
    PagesAreBacked
PROPERTIES
    EveryCallEnds
CHECK_DEADLOCK FALSE
