SPECIFICATION Spec
CONSTANTS
    Scenarios <- WaitLaunches
    ErrJail = 253
    ErrInit = 254
INVARIANT TypeOK
INVARIANT WaitReturnsExitCode
INVARIANT NoKillBeforeLimit
PROPERTY TimeLimitEnforced
PROPERTY CallerEventuallyReturns
