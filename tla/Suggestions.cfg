SPECIFICATION Spec
CONSTANTS
    null = null
    NoWord <- null
    MaxRequests = 5
    TimeoutLimit = 1
INVARIANTS TypeOK AnsweredMeansFresh
PROPERTIES WaitedCommitIsRight NewestIsAnswered WaitEnds
