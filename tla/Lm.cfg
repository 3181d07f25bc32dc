SPECIFICATION Spec
CONSTANTS
    bos = bos
    c = c
    d = d
    a = a
    b = b
    x = x
    y = y
    z = z
    Contexts <- TwoContexts
    Taps <- TwoTaps
    Open <- OpenTokens
    Closing <- ClosingTokens
    XBU = XBU
    XBC = XBC
    NBatch = 2
    Results = 2
    MaxTaps = 2
    MaxTokens = 1
    MaxFailures = 1
SYMMETRY Interchangeable
INVARIANTS TypeOK CacheIsWhatItClaims AnswersTheRequest HypothesesApart
