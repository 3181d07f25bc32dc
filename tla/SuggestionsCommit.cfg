SPECIFICATION Spec
CONSTANTS
    null = null
    NoWord <- null
    MaxRequests = 3
    TimeoutLimit = 1
INVARIANTS CommitsTheTypedWord
