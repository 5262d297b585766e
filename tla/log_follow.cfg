SPECIFICATION Spec
CONSTANTS
    Scenarios <- PassScenarios
    ChunkLen = 3
    MayFail = TRUE
INVARIANT TypeOK
INVARIANT ReportsFirstRelevant
CHECK_DEADLOCK FALSE
