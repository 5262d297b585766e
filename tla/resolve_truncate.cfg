SPECIFICATION Spec
CONSTANTS
    Cases <- TruncateCases
    BufLen = 12
    MaxDepth = 2
    NUL = NUL
    Garbage = Garbage
INVARIANT ResolvesLikeSpec
