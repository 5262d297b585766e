SPECIFICATION Spec
CONSTANTS
    Scenarios <- SplitScenarios
    ChunkLen = 3
    MayFail = FALSE
INVARIANT ReportsFirstRelevant
CHECK_DEADLOCK FALSE
