SPECIFICATION Spec
CONSTANTS
    Policies <- PassPolicies
    NUL = NUL
    RecLen = 2
    InstrSize = 2
    IntSize = 1
    HdrLen = 3
    PipeCap = 12
    UShrtMax = 11
    ReaderMayFail = TRUE
INVARIANT TypeOK
INVARIANT ReceivesSentPolicy
INVARIANT HelperFreesExactlyOwned
PROPERTY DeliveredIfSent
PROPERTY CallerLeavesToFd
