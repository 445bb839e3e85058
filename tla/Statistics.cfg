SPECIFICATION StatisticsSpec
CONSTANTS
    Handlers = {h1, h2}
    Durations = {1, 2, 3}
    MaxSize = 4
    LogEvery = 2
    MaxObserved = 6
    MetricInputs <- MCMetricInputs
    Thresholds <- MCThresholds
    LogInputs <- MCLogInputs
    SpanInputs <- MCSpanInputs
SYMMETRY Symmetry
INVARIANTS
    TypeOK
    WindowIsLatest
    LabelNeverExceedsWindow
    PercentileIsOrderStatistic
    AlarmsAreRare
    SpikesAreFound
CHECK_DEADLOCK FALSE
