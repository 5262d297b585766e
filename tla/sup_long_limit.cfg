SPECIFICATION Spec
CONSTANTS
    Scenarios <- LongLimitLaunches
    ErrJail = 253
    ErrInit = 254
INVARIANT NoKillBeforeLimit
