SPECIFICATION Spec
CONSTANTS
    Scenarios <- UnlimitedKillLaunches
    ErrJail = 253
    ErrInit = 254
PROPERTY CallerEventuallyReturns
