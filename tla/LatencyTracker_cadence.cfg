SPECIFICATION Spec
CONSTANTS
    Handlers = {h1}
    Durations = {1}
    MaxSize = 5
    LogEvery = 2
    MaxObserved = 8
INVARIANTS
    LogsEveryBatch
CHECK_DEADLOCK FALSE
