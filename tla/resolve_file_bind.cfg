SPECIFICATION Spec
CONSTANTS
    Cases <- FileBindCases
    BufLen = 12
    MaxDepth = 2
    NUL = NUL
    Garbage = Garbage
INVARIANT ResolvesLikeSpec
