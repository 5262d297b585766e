SPECIFICATION Spec
CONSTANTS
    Scenarios <- SigsysLaunches
    ErrJail = 253
    ErrInit = 254
INVARIANT ReturnsExitCode
