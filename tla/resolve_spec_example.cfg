SPECIFICATION Spec
CONSTANTS
    Cases <- SpecExampleCases
    BufLen = 12
    MaxDepth = 2
    NUL = NUL
    Garbage = Garbage
INVARIANT ResolvesLikeSpec
