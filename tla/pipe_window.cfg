SPECIFICATION Spec
CONSTANTS
    Policies <- WindowPolicies
    NUL = NUL
    RecLen = 2
    InstrSize = 2
    IntSize = 1
    HdrLen = 3
    PipeCap = 12
    UShrtMax = 11
    ReaderMayFail = TRUE
PROPERTY DeliveredIfSent
