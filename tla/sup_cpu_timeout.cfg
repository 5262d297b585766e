SPECIFICATION Spec
CONSTANTS
    Scenarios <- BusyLoopLaunches
    ErrJail = 253
    ErrInit = 254
INVARIANT TimeoutReported
