SPECIFICATION Spec
CONSTANTS
    Scenarios <- RegrowScenarios
    ChunkLen = 3
    MayFail = FALSE
INVARIANT ReportsFirstRelevant
CHECK_DEADLOCK FALSE
