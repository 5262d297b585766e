SPECIFICATION Spec
CONSTANTS
    Scenarios <- RotateScenarios
    ChunkLen = 3
    MayFail = FALSE
PROPERTY EventuallyReports
CHECK_DEADLOCK FALSE
