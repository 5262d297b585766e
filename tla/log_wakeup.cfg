SPECIFICATION Spec
CONSTANTS
    Scenarios <- TruncScenarios
    ChunkLen = 3
    MayFail = FALSE
PROPERTY EventuallyReports
CHECK_DEADLOCK FALSE
