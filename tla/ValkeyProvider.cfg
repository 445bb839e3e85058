SPECIFICATION FairSpec
CONSTANTS
    Callers = {c1, c2}
    Keys = {k1}
    Values = {v1, v2}
    MaxRetries = 2
    MaxCalls = 2
    NoValue = NoValue
INVARIANTS
    TypeOK
    GetIsCurrent
    SuccessWasExecuted
PROPERTIES
    EveryCallReturns
CHECK_DEADLOCK FALSE
