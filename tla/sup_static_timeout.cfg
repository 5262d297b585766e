SPECIFICATION Spec
CONSTANTS
    Scenarios <- StaticSleeperLaunches
    ErrJail = 253
    ErrInit = 254
PROPERTY TimeLimitEnforced
