SPECIFICATION Spec
CONSTANTS
    Cases <- BenignCases
    BufLen = 12
    MaxDepth = 2
    NUL = NUL
    Garbage = Garbage
INVARIANT TypeOK
INVARIANT ResolvesLikeSpec
INVARIANT LstatSeesWrittenPath
