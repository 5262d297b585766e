SPECIFICATION Spec
CONSTANTS
    Cases <- CycleCases
    BufLen = 12
    MaxDepth = 2
    NUL = NUL
    Garbage = Garbage
INVARIANT ResolvesLikeSpec
