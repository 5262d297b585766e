SPECIFICATION Spec
CONSTANTS
    Scenarios <- KillLaunches
    ErrJail = 253
    ErrInit = 254
INVARIANT ReturnsExitCode
