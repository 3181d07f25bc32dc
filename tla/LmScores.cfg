SPECIFICATION Spec
CONSTANTS
    bos = bos
    c = c
    d = d
    a = a
    b = b
    x = x
    y = y
    z = z
    Contexts <- OneContext
    Taps = {a}
    Open <- OpenTokens
    Closing <- ClosingTokens
    XBU = XBU
    XBC = XBC
    NBatch = 3
    Results = 3
    MaxTaps = 1
    MaxTokens = 2
    MaxFailures = 0
INVARIANTS ScoreIsProduct
