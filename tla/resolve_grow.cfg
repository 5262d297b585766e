SPECIFICATION Spec
CONSTANTS
    Cases <- GrowCases
    BufLen = 12
    MaxDepth = 2
    NUL = NUL
    Garbage = Garbage
INVARIANT LstatSeesWrittenPath
