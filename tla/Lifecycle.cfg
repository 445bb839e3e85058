SPECIFICATION FairSpec
CONSTANTS
    Rpcs = {r1, r2}
INVARIANTS
    TypeOK
    GraceIsRespected
PROPERTIES
    NothingServedAfterShutdown
    ShutdownCompletes
CHECK_DEADLOCK FALSE
